---- MODULE Spec2Model ----
(***************************************************************************)
(* VeriWeave client (src/client/src/App.tsx): the upload handlers of the   *)
(* App component and the normalization of the analysis payload they        *)
(* receive (handleUpload, handleBatchUpload).                              *)
(*                                                                         *)
(* JavaScript values are tagged records: the tag t is the value's type.    *)
(* A number carries x2, twice its value, so that halves (62.5) are exact.  *)
(* Elements of string arrays (reasons, signals, filenames) are plain       *)
(* strings.  A field a payload does not have holds Undef.  The variable    *)
(* response is the axios response the last completed request received:     *)
(* its data as received, in config what the request was sent with, and in  *)
(* object the state of the data object when the handler has returned.      *)
(*                                                                         *)
(* exportToPDF is modelled statement group by statement group: pc is the   *)
(* group it is at, pdf the jsPDF document (its pages, each the text runs   *)
(* drawn on it, and the page that is current), yPos the cursor.  Lengths   *)
(* are millimetres, the unit of jsPDF.                                     *)
(***************************************************************************)
EXTENDS Integers, Sequences, FiniteSets, TLC

VARIABLES file, files, claim, loading, batchLoading, result, batchResults,
          error, isBatchMode, uploadCall, batchCall, response,
          pc, pdf, yPos, index, saved,
          req, at, modelCalls, scans, res, held, uploads,
          fileClaims, multiCaseLoading, multiCaseResults, isMultiCaseMode,
          selectedHistoryId, multiCall

vars == <<file, files, claim, loading, batchLoading, result, batchResults,
          error, isBatchMode, uploadCall, batchCall, response,
          pc, pdf, yPos, index, saved,
          req, at, modelCalls, scans, res, held, uploads,
          fileClaims, multiCaseLoading, multiCaseResults, isMultiCaseMode,
          selectedHistoryId, multiCall>>

\* the state of a run of exportToPDF: the statement it is at, the document,
\* the cursor, the position in the list it goes through, and the name of
\* the file it saved
exportVars == <<pc, pdf, yPos, index, saved>>

\* the state of the server: the batch requests it received, where the
\* handler of each is at, the calls of the model and the records of the
\* Scan collection so far, the response each request got, and the result
\* a handler holds while its record is saved, and the files of each request
\* that are in the upload directory
serverVars == <<req, at, modelCalls, scans, res, held, uploads>>

\* the state of the App component
appVars == <<file, files, claim, loading, batchLoading, result, batchResults,
             error, isBatchMode, uploadCall, batchCall, response>>

\* the state of the App component that the multi-case mode and the history
\* list add: the claim of each selected file, the results of the last
\* multi-case upload, the record of the history that is marked, and the
\* multi-case upload that is running (the files and claims it was started
\* with, the requests it has sent, its results so far)
caseVars == <<fileClaims, multiCaseLoading, multiCaseResults, isMultiCaseMode,
              selectedHistoryId, multiCall>>

----------------------------------------------------------------------------
(* JavaScript values *)

Undef == [t |-> "undefined"]

Null == [t |-> "null"]

Num(i) == [t |-> "number", x2 |-> 2 * i]

Half(i) == [t |-> "number", x2 |-> 2 * i + 1]

Str(s) == [t |-> "string", s |-> s]

Arr(q) == [t |-> "array", a |-> q]

Obj(f) == [t |-> "object", o |-> f]

NaN == [t |-> "number", nan |-> TRUE]

IsNum(v) == v.t = "number" /\ "x2" \in DOMAIN v

IsInteger(v) == IsNum(v) /\ v.x2 % 2 = 0

\* truthiness of a value, as !v, v || d and v ? a : b test it
Truthy(v) ==
  CASE v.t = "undefined" -> FALSE
    [] v.t = "null" -> FALSE
    [] v.t = "number" -> IsNum(v) /\ v.x2 # 0
    [] v.t = "string" -> v.s # ""
    [] OTHER -> TRUE

\* v || d
OrElse(v, d) == IF Truthy(v) THEN v ELSE d

\* the decimal strings the model's payloads use as numbers
NumericText == [s \in {"85"} |-> Num(85)]

\* ToNumber, the conversion the relational operators apply to one operand
ToNumber(v) ==
  CASE v.t = "number" -> v
    [] v.t = "null" -> Num(0)
    [] v.t = "string" -> IF v.s \in DOMAIN NumericText THEN NumericText[v.s]
                         ELSE IF v.s = "" THEN Num(0) ELSE NaN
    [] OTHER -> NaN

\* v > k and v >= k for an integer literal k; false when v converts to NaN
JsGT(v, k) == LET n == ToNumber(v) IN IsNum(n) /\ n.x2 > 2 * k

JsGE(v, k) == LET n == ToNumber(v) IN IsNum(n) /\ n.x2 >= 2 * k

\* Array.isArray(v)
IsArray(v) == v.t = "array"

\* v.length > 0 (undefined > 0 is false for a value that has no length)
LengthPositive(v) ==
  CASE v.t = "array" -> v.a # <<>>
    [] v.t = "string" -> v.s # ""
    [] OTHER -> FALSE

\* v.length === 0
LengthZero(v) ==
  CASE v.t = "array" -> v.a = <<>>
    [] v.t = "string" -> v.s = ""
    [] OTHER -> FALSE

\* the text ${v} of a template literal
Text(v) ==
  CASE v.t = "string" -> v.s
    [] v.t = "undefined" -> "undefined"
    [] v.t = "null" -> "null"
    [] v.t = "number" ->
         IF ~IsNum(v) THEN "NaN"
         ELSE IF v.x2 % 2 = 0 THEN ToString(v.x2 \div 2)
         ELSE IF v.x2 > 0 THEN ToString(v.x2 \div 2) \o ".5"
         ELSE "-" \o ToString((-v.x2) \div 2) \o ".5"
    [] OTHER -> "[object]"

\* a variant that cuts the fraction off instead of rounding
MathRound_Truncating(sum, n) == Num(sum.x2 \div (2 * n))

\* Math.round(sum / n) for a number sum and n >= 1: the nearest integer,
\* a tie going to the larger one
MathRound(sum, n) == Num((sum.x2 + n) \div (2 * n))

----------------------------------------------------------------------------
(* The six category keys and the default strings *)

CategoryKeys == {"multimodal_match", "document_forensics", "visual_artifacts",
                 "logical_consistency", "synthetic_signs", "shadow_perspective"}

DefaultVerdict == "Analysis completed. Review details for specific findings."

DefaultReason == "Multimodal analysis completed across all files."

DefaultSignal == "Cross-file analysis performed."

MaxMerged == 7

MaxBatchFiles == 10

----------------------------------------------------------------------------
(* Sequence helpers of the merge: reduce, flatMap, Set, slice, join *)

RECURSIVE Sum(_)
\* reduce((sum, v) => sum + v, 0) over a sequence of numbers (their x2)
Sum(q) == IF q = <<>> THEN 0 ELSE Head(q).x2 + Sum(Tail(q))

RECURSIVE Concat(_)
\* the concatenation of a sequence of sequences
Concat(qs) == IF qs = <<>> THEN <<>> ELSE Head(qs) \o Concat(Tail(qs))

RECURSIVE Unique(_)
\* [...new Set(q)]: the elements of q, each at its first occurrence
Unique(q) ==
  IF q = <<>> THEN <<>>
  ELSE LET init == Unique(SubSeq(q, 1, Len(q) - 1))
           last == q[Len(q)]
       IN IF \E i \in 1..Len(init) : init[i] = last THEN init
          ELSE Append(init, last)

\* q.slice(0, n)
Slice(q, n) == SubSeq(q, 1, IF Len(q) < n THEN Len(q) ELSE n)

\* the elements of q that are truthy strings: q.filter(Boolean)
FilterBoolean(q) == SelectSeq(q, Truthy)

RECURSIVE Join(_, _)
\* q.join(sep) of a sequence of values; undefined and null give ""
Join(q, sep) ==
  IF q = <<>> THEN ""
  ELSE LET h == IF Head(q).t \in {"undefined", "null"} THEN "" ELSE Text(Head(q))
       IN IF Len(q) = 1 THEN h ELSE h \o sep \o Join(Tail(q), sep)

\* the list flatMap's callback value v adds: the elements of an array, and a
\* value that is no array as one element
Flat(v) == IF IsArray(v) THEN v.a ELSE <<Text(v)>>

----------------------------------------------------------------------------
(* handleBatchUpload: the old format, a results array of per-file results *)

\* score >= 70 ? 'Low' : score >= 40 ? 'Medium' : 'High'
riskLevel(score) ==
  IF JsGE(score, 70) THEN Str("Low")
  ELSE IF JsGE(score, 40) THEN Str("Medium")
  ELSE Str("High")

\* Math.round(results.reduce((sum, r) => sum + (r.authenticity_score || 0), 0)
\*            / results.length)
avgScore(results) ==
  MathRound([x2 |-> Sum([i \in 1..Len(results) |->
                          OrElse(results[i].authenticity_score, Num(0))])],
            Len(results))

\* r.category_scores?.[key]
CategoryOf(r, key) ==
  IF r.category_scores.t = "object" /\ key \in DOMAIN r.category_scores.o
  THEN r.category_scores.o[key]
  ELSE Undef

\* one entry of avgCategoryScores
avgCategory(results, key) ==
  MathRound([x2 |-> Sum([i \in 1..Len(results) |->
                          OrElse(CategoryOf(results[i], key), Num(0))])],
            Len(results))

avgCategoryScores(results) ==
  Obj([key \in CategoryKeys |-> avgCategory(results, key)])

\* results.flatMap(r => r.reasons || [])
allReasons(results) ==
  Concat([i \in 1..Len(results) |-> Flat(OrElse(results[i].reasons, Arr(<<>>)))])

\* results.flatMap(r => r.signals || [])
allSignals(results) ==
  Concat([i \in 1..Len(results) |-> Flat(OrElse(results[i].signals, Arr(<<>>)))])

\* results.map(r => r.filename).filter(Boolean)
allFilenames(results) ==
  LET named == FilterBoolean([i \in 1..Len(results) |-> results[i].filename])
  IN [i \in 1..Len(named) |-> named[i].s]

mergedReasons(results) == Slice(allReasons(results), MaxMerged)

\* a variant that cuts to 7 before it removes the duplicates
mergedSignals_CutFirst(results) == Unique(Slice(allSignals(results), MaxMerged))

mergedSignals(results) == Slice(Unique(allSignals(results)), MaxMerged)

\* a variant without the fallback to the uploaded names
mergedFilenames_NoFallback(results, names) == allFilenames(results)

mergedFilenames(results, names) ==
  IF Len(allFilenames(results)) > 0 THEN allFilenames(results) ELSE names

mergedVerdict(results) ==
  "Unified analysis of " \o ToString(Len(results)) \o " file"
    \o (IF Len(results) # 1 THEN "s" ELSE "") \o ": "
    \o Join([i \in 1..Len(results) |-> results[i].verdict], " | ")

\* the unified result built from the per-file results
CombinedResult(results, names, claimText) ==
  [authenticity_score |-> avgScore(results),
   risk_level |-> riskLevel(avgScore(results)),
   verdict |-> Str(mergedVerdict(results)),
   reasons |-> Arr(mergedReasons(results)),
   signals |-> Arr(mergedSignals(results)),
   category_scores |-> avgCategoryScores(results),
   filename |-> Undef,
   filenames |-> Arr(mergedFilenames(results, names)),
   claim |-> Str(claimText),
   results |-> Undef,
   batch_size |-> Num(Len(results)),
   analysis_type |-> Str("multimodal_batch_combined")]

----------------------------------------------------------------------------
(* handleBatchUpload: the new format, one unified result, completed in place *)

EnsureScore(b) ==
  IF b.authenticity_score.t # "number" \/ b.authenticity_score = Num(0)
  THEN IF b.authenticity_score.t \in {"undefined", "null"}
       THEN [b EXCEPT !.authenticity_score = Num(0)]
       ELSE b
  ELSE b

EnsureRiskLevel(b) ==
  IF ~Truthy(b.risk_level)
     \/ (b.risk_level = Str("High") /\ JsGT(b.authenticity_score, 39))
  THEN [b EXCEPT !.risk_level = riskLevel(b.authenticity_score)]
  ELSE b

GeneratedVerdict(score) ==
  "Unified multimodal analysis completed with " \o Text(score)
    \o "% authenticity score."

EnsureVerdict(b) ==
  IF ~Truthy(b.verdict) \/ b.verdict = Str(DefaultVerdict)
  THEN IF JsGT(b.authenticity_score, 0)
       THEN [b EXCEPT !.verdict = Str(GeneratedVerdict(b.authenticity_score))]
       ELSE b
  ELSE b

\* a variant that adds the default reason to what is there
EnsureReasons_Appending(b) ==
  IF ~IsArray(b.reasons) \/ LengthZero(b.reasons)
     \/ (b.reasons.t = "array" /\ Len(b.reasons.a) = 1
         /\ b.reasons.a[1] = DefaultReason)
  THEN [b EXCEPT !.reasons = IF IsArray(b.reasons)
                             THEN Arr(Append(b.reasons.a, DefaultReason))
                             ELSE Arr(<<DefaultReason>>)]
  ELSE b

EnsureReasons(b) ==
  IF ~IsArray(b.reasons) \/ LengthZero(b.reasons)
     \/ (b.reasons.t = "array" /\ Len(b.reasons.a) = 1
         /\ b.reasons.a[1] = DefaultReason)
  THEN [b EXCEPT !.reasons = IF Truthy(b.reasons) /\ LengthPositive(b.reasons)
                             THEN b.reasons
                             ELSE Arr(<<DefaultReason>>)]
  ELSE b

EnsureSignals(b) ==
  IF ~IsArray(b.signals) \/ LengthZero(b.signals)
     \/ (b.signals.t = "array" /\ Len(b.signals.a) = 1
         /\ b.signals.a[1] = DefaultSignal)
  THEN [b EXCEPT !.signals = IF Truthy(b.signals) /\ LengthPositive(b.signals)
                             THEN b.signals
                             ELSE Arr(<<DefaultSignal>>)]
  ELSE b

\* Object.values(v) of an object; a primitive that is no string has none
ObjectValues(v) == IF v.t = "object" THEN {v.o[k] : k \in DOMAIN v.o} ELSE {}

\* a variant that tests some value, not every value, for zero
EnsureCategoryScores_SomeZero(b) ==
  IF ~Truthy(b.category_scores)
     \/ \E v \in ObjectValues(b.category_scores) : v = Num(0)
  THEN [b EXCEPT !.category_scores =
          Obj([key \in CategoryKeys |-> OrElse(b.authenticity_score, Num(0))])]
  ELSE b

EnsureCategoryScores(b) ==
  IF ~Truthy(b.category_scores)
     \/ \A v \in ObjectValues(b.category_scores) : v = Num(0)
  THEN [b EXCEPT !.category_scores =
          Obj([key \in CategoryKeys |-> OrElse(b.authenticity_score, Num(0))])]
  ELSE b

EnsureFilenames(b, names) ==
  IF ~Truthy(b.filenames) \/ LengthZero(b.filenames)
  THEN [b EXCEPT !.filenames = Arr(names)]
  ELSE b

\* the new-format branch as a whole
UnifiedResult(b, names) ==
  EnsureFilenames(EnsureCategoryScores(EnsureSignals(EnsureReasons(
    EnsureVerdict(EnsureRiskLevel(EnsureScore(b)))))), names)

\* the test that takes the old-format branch
HasResults(data) ==
  Truthy(data.results) /\ IsArray(data.results) /\ LengthPositive(data.results)

\* a payload, and a per-file result, is the record of its fields; every
\* other value carries its type tag
IsPayload(v) == "t" \notin DOMAIN v

\* the statements between the await and setBatchResults throw a TypeError:
\* r.authenticity_score of a per-file result that is null, and, the module
\* being strict code, the assignment of a field to data that is a primitive
ThrowsTypeError(data) ==
  IF IsPayload(data)
  THEN HasResults(data)
       /\ \E i \in 1..Len(data.results.a) : ~IsPayload(data.results.a[i])
  ELSE TRUE

\* the response.data object when handleBatchUpload has returned: the new
\* format branch completes it in place (batchResult is response.data), the
\* old-format branch builds a new object
dataObject(data, names) ==
  IF ThrowsTypeError(data) \/ HasResults(data) THEN data
  ELSE UnifiedResult(data, names)

\* the value handleBatchUpload stores for a response's data
batchResult(data, names, claimText) ==
  IF HasResults(data) THEN CombinedResult(data.results.a, names, claimText)
  ELSE UnifiedResult(data, names)

----------------------------------------------------------------------------
(* The inputs: what the user selects and what the server answers *)

\* the largest number of per-file results in an old-format response
MaxResults == 3

FileNames == {"scan.png"}

FileLists == {<<"invoice.pdf">>, <<"invoice.pdf", "receipt.png">>}

\* a selection of more files than a batch may hold
TooManyFiles == [i \in 1..(MaxBatchFiles + 1) |-> "page.png"]

ClaimTexts == {"The invoice is genuine."}

ErrorTexts == {"Failed to analyze files. Please check your connection and API key."}

RejectedFileText == "File size too large. Please upload a file smaller than 10MB."

TooManyFilesText == "Maximum 10 files allowed for batch analysis."

NoDataText == "No data received from server"

Payload(score, risk, verdict, reasons, signals, categories, filenames, results) ==
  [authenticity_score |-> score,
   risk_level |-> risk,
   verdict |-> verdict,
   reasons |-> reasons,
   signals |-> signals,
   category_scores |-> categories,
   filename |-> Undef,
   filenames |-> filenames,
   claim |-> Undef,
   results |-> results,
   batch_size |-> Undef,
   analysis_type |-> Undef]

ScoreValues ==
  {Undef, Null, Num(-5), Num(0), Num(39), Num(40), Num(69), Num(70), Num(100),
   Num(150), Half(62), Str("85"), Str("n/a")}

RiskValues == {Undef, Str("Low"), Str("Medium"), Str("High")}

VerdictValues ==
  {Undef, Str(""), Str(DefaultVerdict), Str("The documents agree with the claim.")}

ReasonsValues ==
  {Undef, Str("see notes"), Arr(<<>>), Arr(<<DefaultReason>>),
   Arr(<<"Totals match.", "Totals match.">>)}

SignalsValues == {Undef, Arr(<<>>), Arr(<<DefaultSignal>>), Arr(<<"EXIF intact">>)}

CategoryValues ==
  {Undef,
   Obj(<<>>),
   Obj([key \in CategoryKeys |-> Num(0)]),
   Obj([key \in {"multimodal_match"} |-> Num(0)]),
   Obj([key \in {"multimodal_match", "visual_artifacts"} |-> Num(55)]),
   Obj([key \in CategoryKeys \cup {"metadata"} |->
          IF key = "metadata" THEN Num(12) ELSE Num(80)]),
   Obj([key \in CategoryKeys |->
          IF key = "synthetic_signs" THEN Num(0) ELSE Num(90)])}

FilenamesValues == {Undef, Arr(<<>>), Arr(<<"contract.pdf", "id-card.png">>)}

\* new-format responses: the fields the score decides, each with each, and
\* the list fields, each with each
UnifiedResponses ==
  {Payload(s, r, v, Arr(<<"Totals match.">>), Arr(<<"EXIF intact">>), c,
           Arr(<<"invoice.pdf">>), Undef) :
     s \in ScoreValues, r \in RiskValues, v \in VerdictValues, c \in CategoryValues}
  \cup
  {Payload(Num(62), Str("Medium"), Str("The documents agree with the claim."),
           re, si, Undef, fn, rs) :
     re \in ReasonsValues, si \in SignalsValues, fn \in FilenamesValues,
     rs \in {Undef, Arr(<<>>)}}

BaseEntry ==
  [authenticity_score |-> Num(90),
   risk_level |-> Str("Low"),
   verdict |-> Str("Consistent."),
   reasons |-> Arr(<<"Totals match.">>),
   signals |-> Arr(<<"EXIF intact">>),
   category_scores |-> Obj([key \in CategoryKeys |-> Num(90)]),
   filename |-> Str("invoice.pdf")]

\* per-file results that differ in score and risk level
ScoreEntries ==
  {[BaseEntry EXCEPT !.authenticity_score = s, !.risk_level = Str("High")] :
     s \in {Undef, Num(-5), Num(85), Num(90), Num(95)}}
  \cup
  {[BaseEntry EXCEPT !.authenticity_score = Num(30), !.risk_level = Undef]}

\* per-file results that differ in their category scores
CategoryEntries ==
  {[BaseEntry EXCEPT !.category_scores = c] :
     c \in {Undef, Null,
            Obj([key \in {"multimodal_match", "visual_artifacts"} |-> Num(55)]),
            Obj([key \in CategoryKeys |->
                   IF key = "synthetic_signs" THEN Num(0)
                   ELSE IF key = "shadow_perspective" THEN Half(70)
                   ELSE Num(85)])}}

\* per-file results that differ in reasons or in signals
ListEntries ==
  {[BaseEntry EXCEPT !.reasons = re] :
     re \in {Undef,
             Arr(<<"Totals match.", "Dates differ.", "Totals match.">>),
             Arr(<<"Logo blurred.", "Logo blurred.", "Font mismatch.", "Seal missing.">>)}}
  \cup
  {[BaseEntry EXCEPT !.signals = si,
                     !.reasons = Arr(<<"Totals match.", "Dates differ.">>)] :
     si \in {Arr(<<"EXIF intact", "ELA clean", "EXIF intact", "No resampling">>),
             Arr(<<"Clone stamp", "JPEG ghost", "Noise gap", "Edge halo", "Font drift">>)}}

\* per-file results that differ in file name and verdict
NameEntries ==
  {[BaseEntry EXCEPT !.filename = fn] :
     fn \in {Undef, Str("invoice.pdf"), Str("receipt.png")}}
  \cup
  {[BaseEntry EXCEPT !.verdict = Undef, !.signals = Undef]}

\* the sequences of 1..MaxResults elements of S
SeqsOf(S) == UNION {[1..n -> S] : n \in 1..MaxResults}

\* old-format responses: a results array of per-file results
LegacyResponses ==
  {Payload(Undef, Undef, Undef, Undef, Undef, Undef, Undef, Arr(rs)) :
     rs \in SeqsOf(ScoreEntries) \cup SeqsOf(CategoryEntries)
            \cup SeqsOf(ListEntries) \cup SeqsOf(NameEntries)}

\* old-format responses with per-file results that are null
NullEntryResponses ==
  {Payload(Undef, Undef, Undef, Undef, Undef, Undef, Undef, Arr(rs)) :
     rs \in {q \in SeqsOf({BaseEntry, Null}) : \E i \in 1..Len(q) : q[i] = Null}}

\* answers that are text, not JSON: the page of a proxy
TextResponses == {Str("Bad Gateway")}

BatchResponses ==
  UnifiedResponses \cup LegacyResponses \cup NullEntryResponses \cup TextResponses

\* answers of /api/analyze: the model's JSON as parsed, no field checked
SingleResponses ==
  {[Payload(s, r, Str("The documents agree with the claim."),
            Arr(<<"Totals match.">>), Arr(<<"EXIF intact">>), Undef, Undef, Undef)
      EXCEPT !.filename = fn] :
     s \in ScoreValues, r \in RiskValues, fn \in {Undef, Str("stored.png")}}

None == [t |-> "none"]

\* the batch requests the server receives
Requests == {"r1", "r2"}

\* the elements of a list
Elements(q) == {q[i] : i \in 1..Len(q)}

\* fileClaims without a file: {}
NoClaims == [name \in {} |-> ""]

----------------------------------------------------------------------------
(* The App component: state and handlers *)

Init ==
  /\ file = Null
  /\ files = <<>>
  /\ claim = ""
  /\ loading = FALSE
  /\ batchLoading = FALSE
  /\ result = Null
  /\ batchResults = <<>>
  /\ error = Null
  /\ isBatchMode = FALSE
  /\ uploadCall = None
  /\ batchCall = None
  /\ response = None
  /\ pc = "idle"
  /\ pdf = None
  /\ yPos = 0
  /\ index = 0
  /\ saved = Null
  /\ req = [r \in Requests |-> None]
  /\ at = [r \in Requests |-> "none"]
  /\ modelCalls = <<>>
  /\ scans = <<>>
  /\ res = [r \in Requests |-> None]
  /\ held = [r \in Requests |-> None]
  /\ uploads = [r \in Requests |-> <<>>]
  /\ fileClaims = NoClaims
  /\ multiCaseLoading = FALSE
  /\ multiCaseResults = <<>>
  /\ isMultiCaseMode = FALSE
  /\ selectedHistoryId = Null
  /\ multiCall = None

\* the Single mode button
selectSingleMode ==
  /\ isBatchMode' = FALSE
  /\ file' = Null
  /\ files' = <<>>
  /\ result' = Null
  /\ batchResults' = <<>>
  /\ response' = None
  /\ UNCHANGED exportVars
  /\ UNCHANGED serverVars
  /\ isMultiCaseMode' = FALSE
  /\ fileClaims' = NoClaims
  /\ multiCaseResults' = <<>>
  /\ UNCHANGED <<multiCaseLoading, selectedHistoryId, multiCall>>
  /\ UNCHANGED <<claim, loading, batchLoading, error, uploadCall, batchCall>>

\* the Batch mode button
selectBatchMode ==
  /\ isBatchMode' = TRUE
  /\ file' = Null
  /\ files' = <<>>
  /\ result' = Null
  /\ batchResults' = <<>>
  /\ response' = None
  /\ UNCHANGED exportVars
  /\ UNCHANGED serverVars
  /\ isMultiCaseMode' = FALSE
  /\ fileClaims' = NoClaims
  /\ multiCaseResults' = <<>>
  /\ UNCHANGED <<multiCaseLoading, selectedHistoryId, multiCall>>
  /\ UNCHANGED <<claim, loading, batchLoading, error, uploadCall, batchCall>>

handleNewAnalysis ==
  /\ file' = Null
  /\ files' = <<>>
  /\ claim' = ""
  /\ result' = Null
  /\ batchResults' = <<>>
  /\ error' = Null
  /\ isBatchMode' = FALSE
  /\ response' = None
  /\ UNCHANGED exportVars
  /\ UNCHANGED serverVars
  /\ isMultiCaseMode' = FALSE
  /\ fileClaims' = NoClaims
  /\ multiCaseResults' = <<>>
  /\ selectedHistoryId' = Null
  /\ UNCHANGED <<multiCaseLoading, multiCall>>
  /\ UNCHANGED <<loading, batchLoading, uploadCall, batchCall>>

setClaim ==
  /\ \E text \in ClaimTexts \cup {""} : claim' = text
  /\ UNCHANGED exportVars
  /\ UNCHANGED serverVars
  /\ UNCHANGED caseVars
  /\ UNCHANGED <<file, files, loading, batchLoading, result, batchResults,
                 error, isBatchMode, uploadCall, batchCall, response>>

\* the file input of the single mode, for a file that passes the size and
\* type checks
handleFileChange ==
  /\ ~isBatchMode /\ ~isMultiCaseMode
  /\ \E name \in FileNames : file' = Str(name)
  /\ result' = Null
  /\ error' = Null
  /\ response' = None
  /\ UNCHANGED exportVars
  /\ UNCHANGED serverVars
  /\ UNCHANGED caseVars
  /\ UNCHANGED <<files, claim, loading, batchLoading, batchResults,
                 isBatchMode, uploadCall, batchCall>>

\* the file input of the single mode, for a file the size check or the type
\* check rejects
handleFileChangeRejected ==
  /\ ~isBatchMode /\ ~isMultiCaseMode
  /\ error' = Str(RejectedFileText)
  /\ UNCHANGED exportVars
  /\ UNCHANGED serverVars
  /\ UNCHANGED caseVars
  /\ UNCHANGED <<file, files, claim, loading, batchLoading, result,
                 batchResults, isBatchMode, uploadCall, batchCall, response>>

\* the file input of the batch mode and of the multi-case mode: more than
\* 10 files are refused, a selection of 1..10 files replaces the selected
\* files, and in the multi-case mode each of them gets an empty claim
handleBatchFileChange ==
  /\ isBatchMode \/ isMultiCaseMode
  /\ \E selected \in FileLists \cup {TooManyFiles} :
       /\ Len(selected) > 0
       /\ IF Len(selected) > MaxBatchFiles
          THEN /\ error' = Str(TooManyFilesText)
               /\ files' = files
               /\ fileClaims' = fileClaims
          ELSE /\ files' = selected
               /\ fileClaims' = IF isMultiCaseMode
                                THEN [name \in Elements(selected) |-> ""]
                                ELSE fileClaims
               /\ error' = Null
  /\ UNCHANGED exportVars
  /\ UNCHANGED serverVars
  /\ UNCHANGED <<multiCaseLoading, multiCaseResults, isMultiCaseMode,
                 selectedHistoryId, multiCall>>
  /\ UNCHANGED <<file, claim, loading, batchLoading, result, batchResults,
                 isBatchMode, uploadCall, batchCall, response>>

\* handleUpload up to its await: the request leaves with the selected file
handleUpload ==
  /\ ~isBatchMode /\ ~isMultiCaseMode /\ ~loading
  /\ Truthy(file)
  /\ result' = Null
  /\ loading' = TRUE
  /\ error' = Null
  /\ uploadCall' = [file |-> file.s]
  /\ response' = None
  /\ UNCHANGED exportVars
  /\ UNCHANGED serverVars
  /\ selectedHistoryId' = Null
  /\ UNCHANGED <<fileClaims, multiCaseLoading, multiCaseResults, isMultiCaseMode,
                 multiCall>>
  /\ UNCHANGED <<file, files, claim, batchLoading, batchResults, isBatchMode,
                 batchCall>>

\* { ...response.data, filename: response.data.filename || file.name
\*                               || 'Uploaded File' }
resultData(data, name) ==
  [data EXCEPT !.filename =
     OrElse(data.filename, OrElse(Str(name), Str("Uploaded File")))]

\* handleUpload after its await, the request answered with data
handleUploadAnswered(data) ==
  /\ uploadCall # None
  /\ response' = [data |-> data, config |-> uploadCall, object |-> data]
  /\ result' = resultData(data, uploadCall.file)
  /\ loading' = FALSE
  /\ uploadCall' = None
  /\ UNCHANGED exportVars
  /\ UNCHANGED serverVars
  /\ UNCHANGED caseVars
  /\ UNCHANGED <<file, files, claim, batchLoading, batchResults, error,
                 isBatchMode, batchCall>>

\* handleUpload after its await, the request answered
handleUploadResponse == \E data \in SingleResponses : handleUploadAnswered(data)

\* handleUpload after its await, the request failed
handleUploadError ==
  /\ uploadCall # None
  /\ \E text \in ErrorTexts : error' = Str(text)
  /\ loading' = FALSE
  /\ uploadCall' = None
  /\ UNCHANGED exportVars
  /\ UNCHANGED serverVars
  /\ UNCHANGED caseVars
  /\ UNCHANGED <<file, files, claim, batchLoading, result, batchResults,
                 isBatchMode, batchCall, response>>

\* handleBatchUpload up to its await: the request leaves with the selected
\* files and the claim
handleBatchUpload ==
  /\ isBatchMode /\ ~isMultiCaseMode /\ ~batchLoading
  /\ Len(files) # 0
  /\ batchLoading' = TRUE
  /\ error' = Null
  /\ batchResults' = <<>>
  /\ result' = Null
  /\ batchCall' = [files |-> files, claim |-> claim]
  /\ response' = None
  /\ UNCHANGED exportVars
  /\ UNCHANGED serverVars
  /\ UNCHANGED caseVars
  /\ UNCHANGED <<file, files, claim, loading, isBatchMode, uploadCall>>

\* handleBatchUpload after its await, the request answered with the data:
\* the result is stored, or a TypeError reaches the catch, which sets the
\* error
handleBatchUploadAnswered(data) ==
  /\ batchCall # None
  /\ response' = [data |-> data, config |-> batchCall,
                  object |-> dataObject(data, batchCall.files)]
  /\ IF ThrowsTypeError(data)
     THEN /\ batchResults' = batchResults
          /\ \E text \in ErrorTexts : error' = Str(text)
     ELSE /\ batchResults' =
               <<batchResult(data, batchCall.files, batchCall.claim)>>
          /\ error' = error
  /\ batchLoading' = FALSE
  /\ batchCall' = None
  /\ UNCHANGED exportVars
  /\ UNCHANGED serverVars
  /\ UNCHANGED caseVars
  /\ UNCHANGED <<file, files, claim, loading, result, isBatchMode, uploadCall>>

\* handleBatchUpload after its await, the request answered with any of the
\* answers
handleBatchUploadResponse ==
  \E data \in BatchResponses : handleBatchUploadAnswered(data)

\* handleBatchUpload after its await, the request answered without data
handleBatchUploadNoData ==
  /\ batchCall # None
  /\ error' = Str(NoDataText)
  /\ batchLoading' = FALSE
  /\ batchCall' = None
  /\ UNCHANGED exportVars
  /\ UNCHANGED serverVars
  /\ UNCHANGED caseVars
  /\ UNCHANGED <<file, files, claim, loading, result, batchResults,
                 isBatchMode, uploadCall, response>>

\* handleBatchUpload after its await, the request failed
handleBatchUploadError ==
  /\ batchCall # None
  /\ \E text \in ErrorTexts : error' = Str(text)
  /\ batchLoading' = FALSE
  /\ batchCall' = None
  /\ UNCHANGED exportVars
  /\ UNCHANGED serverVars
  /\ UNCHANGED caseVars
  /\ UNCHANGED <<file, files, claim, loading, result, batchResults,
                 isBatchMode, uploadCall, response>>

\* the batch mode: mode buttons, file selection and handleBatchUpload
Next ==
  \/ selectSingleMode
  \/ selectBatchMode
  \/ handleNewAnalysis
  \/ setClaim
  \/ handleBatchFileChange
  \/ handleBatchUpload
  \/ handleBatchUploadResponse
  \/ handleBatchUploadNoData
  \/ handleBatchUploadError

Spec == Init /\ [][Next]_vars

\* the label of the result: getRiskStatus(score).label
getRiskStatus(score) ==
  IF JsGE(score, 80) THEN "AUTHENTIC"
  ELSE IF JsGE(score, 50) THEN "SUSPICIOUS"
  ELSE "TAMPERED"

\* answers of /api/analyze with every score from 0 to 100 and its risk level
ScoredResponses ==
  {[Payload(Num(score), riskLevel(Num(score)),
            Str("The documents agree with the claim."),
            Arr(<<"Totals match.">>), Arr(<<"EXIF intact">>), Undef, Undef, Undef)
      EXCEPT !.filename = Str("stored.png")] : score \in 0..100}

\* the single mode: file selection and handleUpload
NextSingle ==
  \/ selectSingleMode
  \/ handleNewAnalysis
  \/ setClaim
  \/ handleFileChange
  \/ handleFileChangeRejected
  \/ handleUpload
  \/ handleUploadResponse
  \/ handleUploadError

SpecSingle == Init /\ [][NextSingle]_vars

\* the single mode with answers of every score: the result is displayed
\* with its label and its risk level
NextStatus ==
  \/ handleFileChange
  \/ handleUpload
  \/ \E data \in ScoredResponses : handleUploadAnswered(data)

SpecStatus == Init /\ [][NextStatus]_vars

----------------------------------------------------------------------------
(* exportToPDF: texts.  A text is a string of characters.  The characters  *)
(* outside ASCII that the model's texts use are written as signs that the  *)
(* texts do not otherwise use:                                             *)
(*   {  U+20B9 rupee     }  U+20AC euro      [  U+00A3 pound               *)
(*   ]  U+00A5 yen       <  U+00B9           >  U+00B2                     *)
(*   @  U+00B3           &  U+2013 en dash   =  U+2014 em dash             *)
(*   ~  U+2026 ellipsis  ^  U+00E9 e acute   |  U+2022 bullet              *)

NonAscii == {"{", "}", "[", "]", "<", ">", "@", "&", "=", "~", "^", "|"}

Bullet == "|"

\* the i-th character of s
CharAt(s, i) == SubSeq(s, i, i)

RECURSIVE ReplaceAll(_, _, _)
\* s.replace(/ch/g, by) for a character ch
ReplaceAll(text, ch, by) ==
  CHOOSE out \in
    {IF Len(s) = 0 THEN ""
     ELSE IF Len(s) = 1 THEN (IF s = ch THEN by ELSE s)
     ELSE LET half == Len(s) \div 2
          IN ReplaceAll(SubSeq(s, 1, half), ch, by)
               \o ReplaceAll(SubSeq(s, half + 1, Len(s)), ch, by)
       : s \in {text}} : TRUE

RECURSIVE ReplaceNonAscii(_)
\* the last replace of sanitizeTextForPDF: every character that is not ASCII
\* becomes '?'
ReplaceNonAscii(text) ==
  CHOOSE out \in
    {IF Len(s) = 0 THEN ""
     ELSE IF Len(s) = 1 THEN (IF s \in NonAscii THEN "?" ELSE s)
     ELSE LET half == Len(s) \div 2
          IN ReplaceNonAscii(SubSeq(s, 1, half))
               \o ReplaceNonAscii(SubSeq(s, half + 1, Len(s)))
       : s \in {text}} : TRUE

\* the replacements of sanitizeTextForPDF, in the order they are applied
Replacements ==
  << <<"{", "Rs.">>, <<"}", "EUR">>, <<"[", "GBP">>, <<"]", "JPY">>,
     <<"<", "Rs.">>, <<">", "">>, <<"@", "">>, <<"&", "-">>, <<"=", "-">>,
     <<"\"", "\"">>, <<"'", "'">>, <<"~", "...">> >>

RECURSIVE ApplyReplacements(_, _)
\* the first n replacements applied to s, one after the other
ApplyReplacements(s, n) ==
  IF n = 0 THEN s
  ELSE ReplaceAll(ApplyReplacements(s, n - 1),
                  Replacements[n][1], Replacements[n][2])

\* a variant that leaves out the last step, the '?' for what is left
sanitizeTextForPDF_TableOnly(text) ==
  IF ~Truthy(text) THEN ""
  ELSE ApplyReplacements(text.s, Len(Replacements))

\* sanitizeTextForPDF of a value that is a string, undefined or null
sanitizeTextForPDF(text) ==
  IF ~Truthy(text) THEN ""
  ELSE ReplaceNonAscii(ApplyReplacements(text.s, Len(Replacements)))

----------------------------------------------------------------------------
(* exportToPDF: the risky words and the measure of a text *)

riskyWords ==
  {"fraud", "tampered", "tampering", "inconsistent", "inconsistency",
   "mismatch", "mismatched", "suspicious", "suspicion", "fake", "falsified",
   "manipulated", "manipulation", "altered", "forged", "forgery",
   "discrepancy", "discrepancies", "contradiction", "contradictory",
   "invalid", "illegitimate", "unauthorized", "high risk", "low score",
   "failed", "failure", "error", "warning", "alert", "critical", "danger",
   "dangerous", "unverified", "unauthentic"}

UpperLetters == "ABCDEFGHIJKLMNOPQRSTUVWXYZ"

LowerLetters == "abcdefghijklmnopqrstuvwxyz"

Digits == "0123456789"

\* s has the character c
HasChar(s, c) == \E i \in 1..Len(s) : CharAt(s, i) = c

\* the lower-case letter of every upper-case letter
LowerTable ==
  [c \in {CharAt(UpperLetters, i) : i \in 1..Len(UpperLetters)} |->
     CharAt(LowerLetters, CHOOSE i \in 1..Len(UpperLetters) : CharAt(UpperLetters, i) = c)]

LowerChar(c) == IF c \in DOMAIN LowerTable THEN LowerTable[c] ELSE c

RECURSIVE toLowerCase(_)
toLowerCase(text) ==
  CHOOSE out \in
    {IF Len(s) = 0 THEN ""
     ELSE IF Len(s) = 1 THEN LowerChar(s)
     ELSE LET half == Len(s) \div 2
          IN toLowerCase(SubSeq(s, 1, half)) \o toLowerCase(SubSeq(s, half + 1, Len(s)))
       : s \in {text}} : TRUE

RECURSIVE StripPunctuation(_)
\* s.replace(/[.,!?;:]/g, '')
StripPunctuation(text) ==
  CHOOSE out \in
    {IF Len(s) = 0 THEN ""
     ELSE IF Len(s) = 1 THEN (IF s \in {".", ",", "!", "?", ";", ":"} THEN "" ELSE s)
     ELSE LET half == Len(s) \div 2
          IN StripPunctuation(SubSeq(s, 1, half))
               \o StripPunctuation(SubSeq(s, half + 1, Len(s)))
       : s \in {text}} : TRUE

\* s.includes(part)
Includes(s, part) ==
  \E i \in 1..(Len(s) - Len(part) + 1) : SubSeq(s, i, i + Len(part) - 1) = part

Whitespace == {" ", "\t"}

\* the length of the longest prefix of s that is all whitespace (space
\* TRUE) or has no whitespace (space FALSE)
RunLength(text, space) ==
  CHOOSE out \in
    {CHOOSE n \in 0..Len(s) :
       /\ \A k \in 1..n : (CharAt(s, k) \in Whitespace) = space
       /\ n = Len(s) \/ ((CharAt(s, n + 1) \in Whitespace) # space)
       : s \in {text}} : TRUE

RECURSIVE SplitKeepingSpaces(_)
\* text.split(/(\s+)/): the words and, between them, the runs of whitespace
SplitKeepingSpaces(text) ==
  CHOOSE out \in
    {IF n = Len(s) THEN <<s>>
     ELSE <<SubSeq(s, 1, n), SubSeq(s, n + 1, n + m)>>
            \o SplitKeepingSpaces(SubSeq(s, n + m + 1, Len(s)))
       : <<s, n, m>> \in {<<text, RunLength(text, FALSE),
                             RunLength(SubSeq(text, RunLength(text, FALSE) + 1, Len(text)),
                                       TRUE)>>}} : TRUE

\* risky.toLowerCase() of every risky word
riskyLower == {toLowerCase(risky) : risky \in riskyWords}

\* riskyWords.some(risky => lowerWord.includes(risky.toLowerCase()))
isRisky(word) ==
  \E lowerWord \in {StripPunctuation(toLowerCase(word))} :
    \E risky \in riskyLower : Includes(lowerWord, risky)

highlightRiskyWords(text) ==
  CHOOSE parts \in
    {[i \in 1..Len(words) |-> [text |-> words[i], bold |-> isRisky(words[i])]]
       : words \in {SplitKeepingSpaces(text)}} : TRUE

\* the font of the model: every glyph of the regular face is 2 mm wide,
\* every glyph of the bold face 3 mm
GlyphWidth == 2

BoldGlyphWidth == 3

\* a variant that measures every word with the regular face
getTextWidth_RegularFace(s, bold) == Len(s) * GlyphWidth

\* pdf.getTextWidth(s) with the regular or the bold face set
getTextWidth(s, bold) == Len(s) * (IF bold THEN BoldGlyphWidth ELSE GlyphWidth)

----------------------------------------------------------------------------
(* exportToPDF: line splitting and the placing of the words of a line *)

\* the position of the last character of the word of s that starts at i:
\* the character before the next ' ', or the last one of s
WordEnd(s, i) ==
  CHOOSE n \in (i - 1)..Len(s) :
    /\ \A k \in i..n : CharAt(s, k) # " "
    /\ n = Len(s) \/ CharAt(s, n + 1) = " "

\* the words that remain of a text: none, or those of s.split(' ')
NoWords == [more |-> FALSE, s |-> ""]

WordsOf(s) == [more |-> TRUE, s |-> s]

RECURSIVE FillLine(_, _, _, _)
\* one line as jsPDF fills it: a word goes on the line while the line stays
\* within maxWidth, else it starts the next line; of a word wider than
\* maxWidth the line takes the characters it has room for, the others are
\* left for the lines that follow
FillLine(words, sofar, started, maxWidth) ==
  CHOOSE out \in
    {IF ~rem.more THEN [line |-> line, rem |-> rem]
     ELSE LET w == SubSeq(rem.s, 1, n)
              after == IF n = Len(rem.s) THEN NoWords
                       ELSE WordsOf(SubSeq(rem.s, n + 2, Len(rem.s)))
              used == getTextWidth(line, FALSE) + (IF started THEN GlyphWidth ELSE 0)
              glue == IF started THEN line \o " " ELSE line
          IN IF used + getTextWidth(w, FALSE) <= maxWidth
             THEN FillLine(after, glue \o w, TRUE, maxWidth)
             ELSE IF getTextWidth(w, FALSE) > maxWidth
             THEN LET room == IF used < maxWidth THEN (maxWidth - used) \div GlyphWidth
                              ELSE 0
                  IN [line |-> glue \o SubSeq(w, 1, room),
                      rem |-> WordsOf(SubSeq(rem.s, room + 1, Len(rem.s)))]
             ELSE [line |-> line, rem |-> rem]
       : <<rem, line, n>> \in {<<words, sofar, WordEnd(words.s, 1)>>}} : TRUE

RECURSIVE FillLines(_, _, _)
\* the first count lines of the words that remain (fewer when the words
\* end before), and the words that remain after them; the lines are filled
\* one after the other, the first half of them before the second
FillLines(words, count, maxWidth) ==
  CHOOSE out \in
    {IF ~rem.more THEN [lines |-> <<>>, rem |-> rem]
     ELSE IF n = 1
     THEN CHOOSE one \in
            {[lines |-> <<filled.line>>, rem |-> filled.rem]
               : filled \in {FillLine(rem, "", FALSE, maxWidth)}} : TRUE
     ELSE CHOOSE both \in
            {[lines |-> first.lines \o second.lines, rem |-> second.rem]
               : <<first, second>> \in
                   {<<head, FillLines(head.rem, n - n \div 2, maxWidth)>>
                      : head \in {FillLines(rem, n \div 2, maxWidth)}}} : TRUE
       : <<rem, n>> \in {<<words, count>>}} : TRUE

\* pdf.splitTextToSize(text, maxWidth): a text has no more lines than
\* characters, but one line also when it is empty
splitTextToSize(text, maxWidth) ==
  FillLines(WordsOf(text), Len(text) + 1, maxWidth).lines

\* /^\s+$/.test(s)
isSpace(s) == Len(s) > 0 /\ \A i \in 1..Len(s) : CharAt(s, i) \in Whitespace

lineHeight == 7

RECURSIVE PlaceParts(_, _, _, _, _)
\* the parts.forEach of renderTextWithBold: the text runs drawn for the
\* parts, from the position (currentX, currentY) on
PlaceParts(rest, x, maxWidth, fromX, fromY) ==
  CHOOSE out \in
    {IF parts = <<>> THEN <<>>
     ELSE LET part == Head(parts)
              bold == part.bold /\ ~isSpace(part.text)
              wordWidth == getTextWidth(part.text, bold)
              newLine == /\ currentX + wordWidth > x + maxWidth - 2
                         /\ ~isSpace(part.text)
                         /\ currentX > x
              atX == IF newLine THEN x ELSE currentX
              atY == IF newLine THEN currentY + lineHeight ELSE currentY
          IN <<[text |-> part.text, x |-> atX, y |-> atY, bold |-> bold]>>
               \o PlaceParts(Tail(parts), x, maxWidth, atX + wordWidth, atY)
       : <<parts, currentX, currentY>> \in {<<rest, fromX, fromY>>}} : TRUE

\* the text runs renderTextWithBold draws
renderedRuns(text, x, y, maxWidth) ==
  PlaceParts(highlightRiskyWords(text), x, maxWidth, x, y)

\* a variant that returns the height of the line above the last one
finalY_LineAbove(runs) == runs[Len(runs)].y - lineHeight

\* currentY + lineHeight after the runs
finalY(runs) == runs[Len(runs)].y + lineHeight

\* the value renderTextWithBold returns
renderTextWithBold(text, x, y, maxWidth) == finalY(renderedRuns(text, x, y, maxWidth))

RECURSIVE renderLines(_, _, _, _)
\* the lines.forEach of a reason or a signal: the runs of all its lines,
\* each line starting at the value renderTextWithBold returned for the
\* line before
renderLines(lines, x, startY, maxWidth) ==
  IF lines = <<>> THEN <<>>
  ELSE CHOOSE out \in
         {runs \o renderLines(Tail(lines), x, finalY(runs), maxWidth)
            : runs \in {renderedRuns(Head(lines), x, startY, maxWidth)}} : TRUE

----------------------------------------------------------------------------
(* exportToPDF: the page, the document and the file name *)

\* new jsPDF(): an A4 page, upright
pageWidth == 210

pageHeight == 297

margin == 20

footerHeight == 15

maxContentWidth == pageWidth - 2 * margin

\* the distance at which pdf.text(lines, x, y) draws the lines of a block:
\* 1.15 font sizes, a font size being 25.4 / 72 mm, in whole millimetres
\* rounded down (4 for 12 pt)
LineAdvance(fontSize) == (fontSize * 115 * 254) \div 72000

TitleText == "VeriWeave Forensic Analysis Report"

footerText == "VeriWeave - AI-Powered Forensic Analysis | Powered by Gemini 3"

\* the document new jsPDF() gives: one empty page, which is current
NewPdf == [pages |-> << <<>> >>, page |-> 1]

\* pdf.addPage(): a new last page, which becomes current
addPage(doc) == [pages |-> Append(doc.pages, <<>>), page |-> Len(doc.pages) + 1]

\* pdf.internal.pages: the pages, after an entry 0 that is no page
internalPages(doc) == <<Undef>> \o doc.pages

\* one text run on a page; block names the statement that draws it
Run(block, text, x, y, bold) ==
  [block |-> block, text |-> text, x |-> x, y |-> y, bold |-> bold]

\* pdf.text(lines, x, y) of the lines of a block at a font size
BlockRuns(block, lines, x, y, fontSize) ==
  [i \in 1..Len(lines) |->
     Run(block, lines[i], x, y + (i - 1) * LineAdvance(fontSize), FALSE)]

\* the runs renderTextWithBold draws, named after their block
NamedRuns(block, runs) ==
  [i \in 1..Len(runs) |-> Run(block, runs[i].text, runs[i].x, runs[i].y, runs[i].bold)]

\* the runs drawn on the current page
DrawOn(doc, runs) == [doc EXCEPT !.pages[doc.page] = @ \o runs]

\* a variant that starts a page before every block
checkPageBreak_Always(y, requiredSpace) == TRUE

\* the test of checkPageBreak
checkPageBreak(y, requiredSpace) == y + requiredSpace > pageHeight - footerHeight

\* the document and the cursor after checkPageBreak(requiredSpace)
BrokenDoc(doc, y, requiredSpace) ==
  IF checkPageBreak(y, requiredSpace) THEN addPage(doc) ELSE doc

BrokenY(y, requiredSpace) == IF checkPageBreak(y, requiredSpace) THEN margin ELSE y

\* a variant that never writes the note
continuedNote_Never(broken) == <<>>

\* the continuation note a turn of the reasons or the signals writes at the
\* top of the page when its checkPageBreak has added one
continuedNote(broken) ==
  IF broken THEN <<Run("continued", "(continued)", margin, margin, FALSE)>> ELSE <<>>

\* a variant that stamps the pages from the second on
FooterPages_FromSecond(doc) == 2..(Len(internalPages(doc)) - 1)

\* the pages the footer loop visits: 1..totalPages
FooterPages(doc) == 1..(Len(internalPages(doc)) - 1)

\* the document after the footer loop
StampedDoc(doc) ==
  [pages |-> [i \in 1..Len(doc.pages) |->
                IF i \in FooterPages(doc)
                THEN Append(doc.pages[i],
                            Run("footer", footerText, pageWidth \div 2, pageHeight - 8, FALSE))
                ELSE doc.pages[i]],
   page |-> IF FooterPages(doc) = {} THEN doc.page ELSE Len(internalPages(doc)) - 1]

RECURSIVE ReplaceNonAlnum(_)
\* s.replace(/[^a-z0-9]/gi, '-')
ReplaceNonAlnum(text) ==
  CHOOSE out \in
    {IF Len(s) = 0 THEN ""
     ELSE IF Len(s) = 1
     THEN (IF HasChar(LowerLetters, s) \/ HasChar(UpperLetters, s) \/ HasChar(Digits, s)
           THEN s ELSE "-")
     ELSE LET half == Len(s) \div 2
          IN ReplaceNonAlnum(SubSeq(s, 1, half))
               \o ReplaceNonAlnum(SubSeq(s, half + 1, Len(s)))
       : s \in {text}} : TRUE

\* a variant that names a batch after its first file
pdfFilename_FirstOfBatch(r) ==
  IF Truthy(r.filenames) /\ LengthPositive(r.filenames)
  THEN "veriweave-report-" \o toLowerCase(ReplaceNonAlnum(r.filenames.a[1]))
  ELSE IF Truthy(r.filename)
  THEN "veriweave-report-" \o toLowerCase(ReplaceNonAlnum(r.filename.s))
  ELSE "veriweave-report-analysis"

\* pdfFilename of a result
pdfFilename(r) ==
  IF Truthy(r.filenames) /\ LengthPositive(r.filenames)
  THEN IF Len(r.filenames.a) = 1
       THEN "veriweave-report-" \o toLowerCase(ReplaceNonAlnum(r.filenames.a[1]))
       ELSE "veriweave-report-batch-" \o ToString(Len(r.filenames.a)) \o "-files"
  ELSE IF Truthy(r.filename)
  THEN "veriweave-report-" \o toLowerCase(ReplaceNonAlnum(r.filename.s))
  ELSE "veriweave-report-analysis"

\* filenameDisplay of a result
filenameDisplay(r) ==
  IF Truthy(r.filenames) /\ LengthPositive(r.filenames)
  THEN IF Len(r.filenames.a) = 1 THEN r.filenames.a[1]
       ELSE ToString(Len(r.filenames.a)) \o " files: "
              \o Join([i \in 1..Len(r.filenames.a) |-> Str(r.filenames.a[i])], ", ")
  ELSE IF Truthy(r.filename) THEN r.filename.s
  ELSE "Unknown"

filenameText(r) ==
  "File" \o (IF Truthy(r.filenames) /\ Len(r.filenames.a) > 1 THEN "s" ELSE "")
    \o ": " \o sanitizeTextForPDF(Str(filenameDisplay(r)))

claimText(r) ==
  "Claim: " \o sanitizeTextForPDF(OrElse(r.claim, Str("No claim provided")))

verdictText(r) == "Verdict: " \o sanitizeTextForPDF(r.verdict)

reasonText(r, i) == ToString(i) \o ". " \o sanitizeTextForPDF(Str(r.reasons.a[i]))

signalText(r, i) == Bullet \o " " \o sanitizeTextForPDF(Str(r.signals.a[i]))

\* the categories of the breakdown, in the order they are drawn
categories ==
  << [key |-> "multimodal_match", label |-> "Multimodal Match"],
     [key |-> "document_forensics", label |-> "Document Forensics"],
     [key |-> "visual_artifacts", label |-> "Visual Artifacts"],
     [key |-> "logical_consistency", label |-> "Logical Consistency"],
     [key |-> "synthetic_signs", label |-> "Synthetic Signs"],
     [key |-> "shadow_perspective", label |-> "Shadow & Perspective"] >>

----------------------------------------------------------------------------
(* exportToPDF: the records of the history that are exported *)

RECURSIVE Repeat(_, _)
\* n times the text
Repeat(text, n) == IF n = 0 THEN "" ELSE text \o Repeat(text, n - 1)

\* the largest number of reasons of a record
MaxReasons == 30

\* the number of sentences of the longest claim
MaxSentences == 75

BaseItem ==
  [Payload(Num(85), Str("Low"), Str("The documents agree with the claim."),
           Arr(<<"Totals match the line items.", "The seal looks authentic.">>),
           Arr(<<"EXIF intact">>),
           Obj([key \in CategoryKeys |-> Num(85)]), Undef, Undef)
     EXCEPT !.filename = Str("Invoice 2024.PDF"),
            !.claim = Str("This is a standard invoice.")]

\* a batch of two files, and a batch of one
ItemBatch == [BaseItem EXCEPT !.filename = Undef,
                              !.filenames = Arr(<<"contract.pdf", "id-card.png">>)]

ItemBatchOfOne == [BaseItem EXCEPT !.filename = Undef,
                                   !.filenames = Arr(<<"Scan_01 (final).PNG">>)]

\* a record without file name, claim and category scores
ItemBare == [BaseItem EXCEPT !.filename = Undef, !.claim = Undef,
                             !.category_scores = Undef, !.verdict = Undef]

\* a record whose texts have characters outside ASCII
ItemSymbols ==
  [BaseItem EXCEPT !.filenames = Arr(<<"re^u }.pdf">>),
                   !.claim = Str("Paid }1,200 = not {1,200 ~"),
                   !.verdict = Str("Caf^ bill: [12 or ]12<>@ & more"),
                   !.reasons = Arr(<<"Total }1,200 was altered.",
                                     "The word terror is no error?",
                                     "Tampered. FORGED! high risk">>),
                   !.signals = Arr(<<"}-sign font mismatch~", "caf^ logo authentic">>)]

\* a record whose claim fills more than a page
ItemLongClaim ==
  [BaseItem EXCEPT !.claim =
     Str(Repeat("The total on this invoice looks edited compared to the line items. ",
                MaxSentences))]

\* a record with a reason that has a word wider than a line, with a
\* reason whose line is as wide as a line may be, and with a reason whose
\* last word fits the line in the regular face only
ItemWideWords ==
  [BaseItem EXCEPT !.reasons =
     Arr(<<"See https://files.example.com/" \o Repeat("archive/", 9) \o "invoice-2024.pdf now",
           Repeat("The stamp is misplaced. ", 3) \o "x"
             \o Repeat(" forged", 1),
           Repeat("abcdefghi ", 7) \o "suspicious",
           Repeat("abcdefghi ", 7) \o "123456789",
           Repeat("abcdefghi ", 7) \o "forged">>)]

\* a record with so many reasons and signals that they fill pages
ItemManyReasons ==
  [BaseItem EXCEPT !.reasons = [t |-> "array",
                                a |-> [i \in 1..MaxReasons |-> "Totals match the line items."]],
                   !.signals = [t |-> "array",
                                a |-> [i \in 1..MaxReasons |-> "EXIF intact"]]]

\* records without a list of reasons, without a list of signals
ItemNoReasons == [BaseItem EXCEPT !.reasons = Undef]

ItemNoSignals == [BaseItem EXCEPT !.signals = Undef, !.reasons = Arr(<<>>)]

\* the list of the history, as fetchHistory stored it
History ==
  <<BaseItem, ItemBatch, ItemBatchOfOne, ItemBare, ItemSymbols, ItemLongClaim,
    ItemWideWords, ItemManyReasons, ItemNoReasons, ItemNoSignals>>

HistoryItems == {History[i] : i \in 1..Len(History)}

\* `${item.filename}-${item.timestamp || index}`, the mark of a record of the
\* history list; the records here have no timestamp, so that it is the
\* index that tells them apart
itemId(item, i) == Str(Text(item.filename) \o "-" \o ToString(i))

\* new Date().toLocaleString() and Date.now() at the moments of an export
DateTexts == {"11/4/2026, 10:15:00 AM"}

ClockTexts == {"1793787300000", "1793787300001"}

----------------------------------------------------------------------------
(* exportToPDF, statement group by statement group *)

\* no export is running
ExportIdle == pc \in {"idle", "done"}

\* a click on a record of the history
handleHistoryClick ==
  /\ ExportIdle
  /\ \E i \in 1..Len(History) :
       LET item == History[i]
       IN /\ result' = item
          /\ claim' = IF Truthy(item.claim) THEN item.claim.s ELSE claim
          /\ selectedHistoryId' = itemId(item, i - 1)
  /\ file' = Null
  /\ UNCHANGED <<files, loading, batchLoading, batchResults, error,
                 isBatchMode, uploadCall, batchCall, response>>
  /\ UNCHANGED exportVars
  /\ UNCHANGED serverVars
  /\ UNCHANGED <<fileClaims, multiCaseLoading, multiCaseResults, isMultiCaseMode,
                 multiCall>>

\* the Export PDF button, shown with a result: the document is made
exportToPDF ==
  /\ ExportIdle
  /\ result # Null /\ batchResults = <<>> /\ multiCaseResults = <<>>
  /\ pdf' = NewPdf
  /\ yPos' = margin
  /\ pc' = "title"
  /\ index' = 0
  /\ saved' = Null
  /\ UNCHANGED appVars
  /\ UNCHANGED serverVars
  /\ UNCHANGED caseVars

drawTitle ==
  /\ pc = "title"
  /\ \E titleLines \in {splitTextToSize(TitleText, maxContentWidth)} :
        /\ pdf' = DrawOn(pdf, BlockRuns("title", titleLines, margin, yPos, 20))
        /\ yPos' = yPos + Len(titleLines) * 8 + 5
  /\ pc' = "timestamp"
  /\ UNCHANGED <<index, saved>>
  /\ UNCHANGED appVars
  /\ UNCHANGED serverVars
  /\ UNCHANGED caseVars

drawTimestamp ==
  /\ pc = "timestamp"
  /\ \E date \in DateTexts :
       pdf' = DrawOn(pdf, <<Run("timestamp", "Generated: " \o date, margin, yPos, FALSE)>>)
  /\ yPos' = yPos + 10
  /\ pc' = "file"
  /\ UNCHANGED <<index, saved>>
  /\ UNCHANGED appVars
  /\ UNCHANGED serverVars
  /\ UNCHANGED caseVars

drawFileInfo ==
  /\ pc = "file"
  /\ \E filenameLines \in {splitTextToSize(filenameText(result), maxContentWidth)} :
        /\ pdf' = DrawOn(pdf, BlockRuns("file", filenameLines, margin, yPos, 12))
        /\ yPos' = yPos + Len(filenameLines) * 6 + 5
  /\ pc' = "claim"
  /\ UNCHANGED <<index, saved>>
  /\ UNCHANGED appVars
  /\ UNCHANGED serverVars
  /\ UNCHANGED caseVars

drawClaim ==
  /\ pc = "claim"
  /\ \E claimLines \in {splitTextToSize(claimText(result), maxContentWidth)} :
        /\ pdf' = DrawOn(pdf, BlockRuns("claim", claimLines, margin, yPos, 12))
        /\ yPos' = yPos + Len(claimLines) * 6 + 5
  /\ pc' = "score"
  /\ UNCHANGED <<index, saved>>
  /\ UNCHANGED appVars
  /\ UNCHANGED serverVars
  /\ UNCHANGED caseVars

\* the score and the risk level, after checkPageBreak(15)
drawScore ==
  /\ pc = "score"
  /\ LET y == BrokenY(yPos, 15)
     IN /\ pdf' = DrawOn(BrokenDoc(pdf, yPos, 15),
                         <<Run("score", "Authenticity Score: "
                                 \o Text(result.authenticity_score) \o "%",
                               margin, y, FALSE),
                           Run("risk", "Risk Level: " \o Text(result.risk_level),
                               margin, y + 10, FALSE)>>)
        /\ yPos' = y + 20
  /\ pc' = "verdict"
  /\ UNCHANGED <<index, saved>>
  /\ UNCHANGED appVars
  /\ UNCHANGED serverVars
  /\ UNCHANGED caseVars

\* the verdict, after checkPageBreak(20)
drawVerdict ==
  /\ pc = "verdict"
  /\ \E verdictLines \in {splitTextToSize(verdictText(result), maxContentWidth)} :
     LET y == BrokenY(yPos, 20)
     IN /\ pdf' = DrawOn(BrokenDoc(pdf, yPos, 20),
                         BlockRuns("verdict", verdictLines, margin, y, 12))
        /\ yPos' = y + Len(verdictLines) * 7 + 8
  /\ pc' = "categories"
  /\ UNCHANGED <<index, saved>>
  /\ UNCHANGED appVars
  /\ UNCHANGED serverVars
  /\ UNCHANGED caseVars

\* the breakdown, when the result has category scores, after
\* checkPageBreak(50)
drawCategoryScores ==
  /\ pc = "categories"
  /\ IF Truthy(result.category_scores)
     THEN LET y == BrokenY(yPos, 50)
          IN /\ pdf' = DrawOn(BrokenDoc(pdf, yPos, 50),
                   <<Run("categories", "Confidence Breakdown:", margin, y, FALSE)>>
                   \o [i \in 1..Len(categories) |->
                         Run("category",
                             categories[i].label \o ": "
                               \o Text(OrElse(CategoryOf(result, categories[i].key), Num(0)))
                               \o "%",
                             margin + 5, y + 8 + (i - 1) * 6, FALSE)])
             /\ yPos' = y + 8 + Len(categories) * 6 + 5
     ELSE UNCHANGED <<pdf, yPos>>
  /\ pc' = "reasons"
  /\ UNCHANGED <<index, saved>>
  /\ UNCHANGED appVars
  /\ UNCHANGED serverVars
  /\ UNCHANGED caseVars

\* the heading of the reasons, after checkPageBreak(20); result.reasons
\* .forEach then throws a TypeError when reasons is no array, and the
\* export ends without a document
drawReasonsHeader ==
  /\ pc = "reasons"
  /\ LET y == BrokenY(yPos, 20)
     IN IF ~IsArray(result.reasons)
        THEN /\ pdf' = None
             /\ yPos' = 0
             /\ index' = 0
             /\ pc' = "idle"
        ELSE /\ pdf' = DrawOn(BrokenDoc(pdf, yPos, 20),
                              <<Run("reasons", "Analysis Reasons:", margin, y, FALSE)>>)
             /\ yPos' = IF result.reasons.a = <<>> THEN y + 10 + 5 ELSE y + 10
             /\ index' = 1
             /\ pc' = IF result.reasons.a = <<>> THEN "signals" ELSE "reason"
  /\ UNCHANGED saved
  /\ UNCHANGED appVars
  /\ UNCHANGED serverVars
  /\ UNCHANGED caseVars

\* one turn of result.reasons.forEach, and after the last one yPos += 5
drawReason ==
  /\ pc = "reason"
  /\ \E reasonLines \in {splitTextToSize(reasonText(result, index), maxContentWidth - 5)} :
     LET requiredSpace == Len(reasonLines) * 7 + 4
         broken == checkPageBreak(yPos, requiredSpace)
         startY == IF broken THEN margin + 5 ELSE yPos
         last == index = Len(result.reasons.a)
     IN \E runs \in {renderLines(reasonLines, margin + 5, startY, maxContentWidth - 5)} :
        /\ pdf' = DrawOn(BrokenDoc(pdf, yPos, requiredSpace),
                         continuedNote(broken)
                         \o NamedRuns("reason", runs))
        /\ yPos' = finalY(runs)
                     + 2 + (IF last THEN 5 ELSE 0)
        /\ index' = IF last THEN 1 ELSE index + 1
        /\ pc' = IF last THEN "signals" ELSE "reason"
  /\ UNCHANGED saved
  /\ UNCHANGED appVars
  /\ UNCHANGED serverVars
  /\ UNCHANGED caseVars

\* the heading of the signals, after checkPageBreak(20); result.signals
\* .forEach throws when signals is no array
drawSignalsHeader ==
  /\ pc = "signals"
  /\ LET y == BrokenY(yPos, 20)
     IN IF ~IsArray(result.signals)
        THEN /\ pdf' = None
             /\ yPos' = 0
             /\ index' = 0
             /\ pc' = "idle"
        ELSE /\ pdf' = DrawOn(BrokenDoc(pdf, yPos, 20),
                              <<Run("signals", "Technical Signals:", margin, y, FALSE)>>)
             /\ yPos' = y + 10
             /\ index' = 1
             /\ pc' = IF result.signals.a = <<>> THEN "footer" ELSE "signal"
  /\ UNCHANGED saved
  /\ UNCHANGED appVars
  /\ UNCHANGED serverVars
  /\ UNCHANGED caseVars

\* one turn of result.signals.forEach
drawSignal ==
  /\ pc = "signal"
  /\ \E signalLines \in {splitTextToSize(signalText(result, index), maxContentWidth - 5)} :
     LET requiredSpace == Len(signalLines) * 7
         broken == checkPageBreak(yPos, requiredSpace)
         startY == IF broken THEN margin + 5 ELSE yPos
         last == index = Len(result.signals.a)
     IN \E runs \in {renderLines(signalLines, margin + 5, startY, maxContentWidth - 5)} :
        /\ pdf' = DrawOn(BrokenDoc(pdf, yPos, requiredSpace),
                         continuedNote(broken)
                         \o NamedRuns("signal", runs))
        /\ yPos' = finalY(runs) + 2
        /\ index' = IF last THEN 0 ELSE index + 1
        /\ pc' = IF last THEN "footer" ELSE "signal"
  /\ UNCHANGED saved
  /\ UNCHANGED appVars
  /\ UNCHANGED serverVars
  /\ UNCHANGED caseVars

\* the footer on all pages
stampFooters ==
  /\ pc = "footer"
  /\ pdf' = StampedDoc(pdf)
  /\ pc' = "save"
  /\ UNCHANGED <<yPos, index, saved>>
  /\ UNCHANGED appVars
  /\ UNCHANGED serverVars
  /\ UNCHANGED caseVars

\* pdf.save under the generated name
savePdf ==
  /\ pc = "save"
  /\ \E now \in ClockTexts :
       saved' = Str(pdfFilename(result) \o "-" \o now \o ".pdf")
  /\ pc' = "done"
  /\ UNCHANGED <<pdf, yPos, index>>
  /\ UNCHANGED appVars
  /\ UNCHANGED serverVars
  /\ UNCHANGED caseVars

\* the history and the export of a record
NextExport ==
  \/ handleHistoryClick
  \/ exportToPDF
  \/ drawTitle
  \/ drawTimestamp
  \/ drawFileInfo
  \/ drawClaim
  \/ drawScore
  \/ drawVerdict
  \/ drawCategoryScores
  \/ drawReasonsHeader
  \/ drawReason
  \/ drawSignalsHeader
  \/ drawSignal
  \/ stampFooters
  \/ savePdf

SpecExport == Init /\ [][NextExport]_vars

\* the history list beside the single mode: a record is clicked while a
\* file is selected, uploaded and answered
NextHistory ==
  \/ handleHistoryClick
  \/ handleNewAnalysis
  \/ handleFileChange
  \/ handleUpload
  \/ handleUploadResponse
  \/ handleUploadError

SpecHistory == Init /\ [][NextHistory]_vars

\* the statements of exportToPDF: the function is synchronous, so once it is
\* called its statements run one after the other until it returns or throws
Layout ==
  \/ drawTitle
  \/ drawTimestamp
  \/ drawFileInfo
  \/ drawClaim
  \/ drawScore
  \/ drawVerdict
  \/ drawCategoryScores
  \/ drawReasonsHeader
  \/ drawReason
  \/ drawSignalsHeader
  \/ drawSignal
  \/ stampFooters
  \/ savePdf

SpecExportFair == Init /\ [][NextExport]_vars /\ WF_vars(Layout)

----------------------------------------------------------------------------
(* The server: POST /api/analyze-batch and analyzeBatchFiles.  A handler   *)
(* runs up to its next await: the call of the model, the save of the       *)
(* record.  Handlers of different requests take turns at the awaits.       *)

\* the largest number of files of a request
MaxFiles == 3

\* req.files: the originalname of each file multer stored
UploadedFiles ==
  {[i \in 1..n |-> "file-" \o ToString(i) \o ".pdf"] : n \in 0..MaxFiles}

\* req.body.claim: no field, an empty one, blanks, a claim
ClaimFields == {Undef, Str(""), Str("  "), Str("The invoice is genuine.")}

\* s.trim()
trim(s) ==
  LET inner == {i \in 1..Len(s) : CharAt(s, i) \notin Whitespace}
  IN IF inner = {} THEN ""
     ELSE SubSeq(s, CHOOSE i \in inner : \A j \in inner : i <= j,
                    CHOOSE i \in inner : \A j \in inner : i >= j)

\* the JSON objects the model answers with: complete, empty, with a score
\* that is no number, and with a result for each file instead of one
ModelObjects ==
  {Payload(Num(85), Str("Low"), Str("The documents agree with the claim."),
           Arr(<<"Totals match.">>), Arr(<<"EXIF intact">>),
           Obj([key \in CategoryKeys |-> Num(85)]), Undef, Undef),
   Payload(Undef, Undef, Undef, Undef, Undef, Undef, Undef, Undef),
   Payload(Str("85"), Undef, Str("Looks edited."), Str("see notes"), Undef,
           Undef, Undef, Undef),
   Payload(Undef, Undef, Undef, Undef, Undef, Undef, Undef,
           Arr(<<BaseEntry, BaseEntry>>))}

\* response.text() of the model: a text around one JSON object, a text with
\* one JSON object after the other, a text without any
ModelTexts ==
  {[kind |-> "object", value |-> object] : object \in ModelObjects}
    \cup {[kind |-> "objects"], [kind |-> "prose"]}

\* text.match(/\{[\s\S]*\}/) and JSON.parse of the match: the object, or
\* Null when there is no match, or None when JSON.parse throws (the match
\* runs from the first brace to the last, over all the objects)
jsonMatch(text) ==
  CASE text.kind = "object" -> text.value
    [] text.kind = "objects" -> None
    [] OTHER -> Null

\* the parsed response as analyzeBatchFiles returns it, every required
\* field ensured
parsedResponse(object) ==
  LET score == IF object.authenticity_score.t # "number" THEN Num(0)
               ELSE object.authenticity_score
  IN [object EXCEPT
        !.authenticity_score = score,
        !.risk_level = IF ~Truthy(@)
                       THEN Str(IF JsGE(score, 70) THEN "Low"
                                ELSE IF JsGE(score, 40) THEN "Medium" ELSE "High")
                       ELSE @,
        !.verdict = IF ~Truthy(@) THEN Str(DefaultVerdict) ELSE @,
        !.reasons = IF ~IsArray(@) THEN Arr(<<DefaultReason>>) ELSE @,
        !.signals = IF ~IsArray(@) THEN Arr(<<DefaultSignal>>) ELSE @,
        !.category_scores = IF ~Truthy(@)
                            THEN Obj([key \in CategoryKeys |-> OrElse(score, Num(0))])
                            ELSE @]

\* a variant that sends the first file only
contentArray_FirstFile(uploaded) == <<uploaded[1]>>

\* contentArray without the prompt: the inline data of every file
contentArray(uploaded) == uploaded

\* the result with the metadata the handler adds
withMetadata(parsed, uploaded, field) ==
  [parsed EXCEPT !.filenames = Arr(uploaded),
                 !.claim = field,
                 !.batch_size = Num(Len(uploaded)),
                 !.analysis_type = Str("multimodal_batch")]

\* new Scan({filename, claim, ...result}): the fields of scanSchema, a field
\* of the result going before the one given; request names the request
\* that made the record
newScan(request, unified, uploaded) ==
  [request |-> request,
   filename |-> OrElse(unified.filename,
                       Str(Join([i \in 1..Len(uploaded) |-> Str(uploaded[i])], ", "))),
   claim |-> unified.claim,
   authenticity_score |-> unified.authenticity_score,
   risk_level |-> unified.risk_level,
   reasons |-> unified.reasons,
   signals |-> unified.signals,
   verdict |-> unified.verdict]

Status(code, body) == [status |-> code, body |-> body]

\* the handler up to the call of the model, multer having stored the files
\* of the request in the upload directory: the two checks, then
\* analyzeBatchFiles up to model.generateContent(contentArray)
postAnalyzeBatch(r) ==
  /\ at[r] = "none"
  /\ \E uploaded \in UploadedFiles, field \in ClaimFields :
       /\ req' = [req EXCEPT ![r] = [files |-> uploaded, claim |-> field]]
       /\ uploads' = [uploads EXCEPT ![r] = uploaded]
       /\ IF uploaded = <<>>
          THEN /\ res' = [res EXCEPT ![r] = Status(400, Str("No files uploaded"))]
               /\ at' = [at EXCEPT ![r] = "answered"]
               /\ UNCHANGED modelCalls
          ELSE IF ~Truthy(field) \/ trim(field.s) = ""
          THEN /\ res' = [res EXCEPT ![r] =
                            Status(400, Str("Claim is required for batch analysis"))]
               /\ at' = [at EXCEPT ![r] = "answered"]
               /\ UNCHANGED modelCalls
          ELSE /\ modelCalls' = Append(modelCalls,
                                       [request |-> r, files |-> contentArray(uploaded)])
               /\ at' = [at EXCEPT ![r] = "calling"]
               /\ UNCHANGED res
  /\ UNCHANGED <<scans, held>>
  /\ UNCHANGED appVars
  /\ UNCHANGED exportVars
  /\ UNCHANGED caseVars

\* the model answers: analyzeBatchFiles returns or throws; with a result
\* the handler adds the metadata and calls newScan.save()
generateContentReturns(r) ==
  /\ at[r] = "calling"
  /\ \E text \in ModelTexts :
       IF jsonMatch(text) \in {Null, None}
       THEN /\ res' = [res EXCEPT ![r] = Status(500, Str("Batch analysis failed"))]
            /\ at' = [at EXCEPT ![r] = "answered"]
            /\ UNCHANGED held
       ELSE /\ held' = [held EXCEPT ![r] =
                          withMetadata(parsedResponse(jsonMatch(text)),
                                       req[r].files, req[r].claim)]
            /\ at' = [at EXCEPT ![r] = "saving"]
            /\ UNCHANGED res
  /\ UNCHANGED <<req, modelCalls, scans, uploads>>
  /\ UNCHANGED appVars
  /\ UNCHANGED exportVars
  /\ UNCHANGED caseVars

\* the call of the model fails (no key, no network, a refusal)
generateContentThrows(r) ==
  /\ at[r] = "calling"
  /\ res' = [res EXCEPT ![r] = Status(500, Str("Batch analysis failed"))]
  /\ at' = [at EXCEPT ![r] = "answered"]
  /\ UNCHANGED <<req, modelCalls, scans, held, uploads>>
  /\ UNCHANGED appVars
  /\ UNCHANGED exportVars
  /\ UNCHANGED caseVars

\* the record is saved: the files of the request are deleted from the upload
\* directory, then res.json(result)
saveReturns(r) ==
  /\ at[r] = "saving"
  /\ scans' = Append(scans, newScan(r, held[r], req[r].files))
  /\ uploads' = [uploads EXCEPT ![r] = <<>>]
  /\ res' = [res EXCEPT ![r] = Status(200, held[r])]
  /\ at' = [at EXCEPT ![r] = "answered"]
  /\ UNCHANGED <<req, modelCalls, held>>
  /\ UNCHANGED appVars
  /\ UNCHANGED exportVars
  /\ UNCHANGED caseVars

\* the record is not saved (the connection to the database failed, which
\* the server only logs)
saveThrows(r) ==
  /\ at[r] = "saving"
  /\ res' = [res EXCEPT ![r] = Status(500, Str("Batch analysis failed"))]
  /\ at' = [at EXCEPT ![r] = "answered"]
  /\ UNCHANGED <<req, modelCalls, scans, held, uploads>>
  /\ UNCHANGED appVars
  /\ UNCHANGED exportVars
  /\ UNCHANGED caseVars

NextServer ==
  \E r \in Requests :
    \/ postAnalyzeBatch(r)
    \/ generateContentReturns(r)
    \/ generateContentThrows(r)
    \/ saveReturns(r)
    \/ saveThrows(r)

SpecServer == Init /\ [][NextServer]_vars

----------------------------------------------------------------------------
(* The multi-case mode: one claim for each file, one request for each file *)

\* what is typed into the claim field of a file
CaseClaimTexts == {"", "  ", "The invoice is genuine.", "The receipt is altered."}

\* answers of /api/analyze to the requests of a multi-case upload
CaseResponses ==
  {data \in SingleResponses :
     /\ data.authenticity_score \in {Undef, Num(100)}
     /\ data.risk_level = Str("Low")}

\* err.response?.data?.error of a request that failed: none, or the error of
\* the server
CaseErrors == {Undef, Str("No file uploaded")}

\* a variant that leaves the batch mode on
selectMultiCaseMode_BesideBatch ==
  /\ isMultiCaseMode' = TRUE
  /\ file' = Null
  /\ files' = <<>>
  /\ fileClaims' = NoClaims
  /\ result' = Null
  /\ batchResults' = <<>>
  /\ multiCaseResults' = <<>>
  /\ response' = None
  /\ UNCHANGED <<claim, loading, batchLoading, error, uploadCall, batchCall,
                 isBatchMode>>
  /\ UNCHANGED <<multiCaseLoading, selectedHistoryId, multiCall>>
  /\ UNCHANGED exportVars
  /\ UNCHANGED serverVars

\* the Multi-Case mode button
selectMultiCaseMode ==
  /\ isBatchMode' = FALSE
  /\ isMultiCaseMode' = TRUE
  /\ file' = Null
  /\ files' = <<>>
  /\ fileClaims' = NoClaims
  /\ result' = Null
  /\ batchResults' = <<>>
  /\ multiCaseResults' = <<>>
  /\ response' = None
  /\ UNCHANGED <<claim, loading, batchLoading, error, uploadCall, batchCall>>
  /\ UNCHANGED <<multiCaseLoading, selectedHistoryId, multiCall>>
  /\ UNCHANGED exportVars
  /\ UNCHANGED serverVars

\* the claim field of a selected file
updateFileClaim ==
  /\ isMultiCaseMode
  /\ \E fileName \in Elements(files), text \in CaseClaimTexts :
       fileClaims' = [name \in DOMAIN fileClaims \cup {fileName} |->
                        IF name = fileName THEN text ELSE fileClaims[name]]
  /\ UNCHANGED <<multiCaseLoading, multiCaseResults, isMultiCaseMode,
                 selectedHistoryId, multiCall>>
  /\ UNCHANGED appVars
  /\ UNCHANGED exportVars
  /\ UNCHANGED serverVars

\* fileClaims has no claim for the file, or a blank one
missingClaim(claims, name) ==
  name \notin DOMAIN claims \/ claims[name] = "" \/ trim(claims[name]) = ""

\* the request for the file at place i of a multi-case upload
caseRequest(selected, claims, i) == [file |-> selected[i], claim |-> claims[selected[i]]]

\* handleMultiCaseUpload up to its first await: the button is enabled with
\* files that all have a claim (so that the handler's own test of the
\* claims never fails), and the request for the first file leaves
handleMultiCaseUpload ==
  /\ isMultiCaseMode /\ ~multiCaseLoading
  /\ Len(files) # 0
  /\ \A name \in DOMAIN fileClaims : ~missingClaim(fileClaims, name)
  /\ \A i \in 1..Len(files) : ~missingClaim(fileClaims, files[i])
  /\ multiCaseLoading' = TRUE
  /\ error' = Null
  /\ multiCaseResults' = <<>>
  /\ multiCall' = [files |-> files, claims |-> fileClaims,
                   posted |-> <<caseRequest(files, fileClaims, 1)>>,
                   results |-> <<>>]
  /\ UNCHANGED <<file, files, claim, loading, batchLoading, result, batchResults,
                 isBatchMode, uploadCall, batchCall, response>>
  /\ UNCHANGED <<fileClaims, isMultiCaseMode, selectedHistoryId>>
  /\ UNCHANGED exportVars
  /\ UNCHANGED serverVars

\* a variant that keeps the file name and the claim of the answer
caseResult_AsAnswered(data, name, text) == data

\* { ...response.data, filename: file.name, claim: fileClaims[file.name] }
caseResult(data, name, text) ==
  [data EXCEPT !.filename = Str(name), !.claim = Str(text)]

\* the entry of a file whose request failed
failedResult(err, name, text) ==
  [filename |-> Str(name),
   authenticity_score |-> Num(0),
   risk_level |-> Str("High"),
   reasons |-> Arr(<<"Error: " \o Text(OrElse(err, Str("Analysis failed")))>>),
   signals |-> Arr(<<>>),
   verdict |-> Str("Analysis failed for this file"),
   claim |-> Str(text)]

\* the upload goes on with the entry of the file it waited for: the request
\* for the next file leaves, or after the last file the results are stored
multiCaseContinues(entry) ==
  LET i == Len(multiCall.results) + 1
      results == Append(multiCall.results, entry)
  IN IF i < Len(multiCall.files)
     THEN /\ multiCall' =
               [multiCall EXCEPT
                  !.results = results,
                  !.posted = Append(@, caseRequest(multiCall.files, multiCall.claims,
                                                   i + 1))]
          /\ UNCHANGED <<multiCaseResults, multiCaseLoading>>
     ELSE /\ multiCall' = None
          /\ multiCaseResults' = results
          /\ multiCaseLoading' = FALSE

\* handleMultiCaseUpload after an await, the request answered
handleMultiCaseUploadResponse ==
  /\ multiCall # None
  /\ \E data \in CaseResponses :
       LET name == multiCall.files[Len(multiCall.results) + 1]
       IN multiCaseContinues(caseResult(data, name, multiCall.claims[name]))
  /\ UNCHANGED <<fileClaims, isMultiCaseMode, selectedHistoryId>>
  /\ UNCHANGED appVars
  /\ UNCHANGED exportVars
  /\ UNCHANGED serverVars

\* handleMultiCaseUpload after an await, the request failed: the catch in
\* the loop makes the entry of the file
handleMultiCaseUploadError ==
  /\ multiCall # None
  /\ \E err \in CaseErrors :
       LET name == multiCall.files[Len(multiCall.results) + 1]
       IN multiCaseContinues(failedResult(err, name, multiCall.claims[name]))
  /\ UNCHANGED <<fileClaims, isMultiCaseMode, selectedHistoryId>>
  /\ UNCHANGED appVars
  /\ UNCHANGED exportVars
  /\ UNCHANGED serverVars

\* no upload is waiting for its answer: the results are shown
ResultsShown == ~loading /\ ~batchLoading /\ ~multiCaseLoading

\* the View Full Analysis button of the batch result
viewFullAnalysis ==
  /\ ResultsShown
  /\ Len(batchResults) > 0
  /\ result' = batchResults[1]
  /\ batchResults' = <<>>
  /\ isBatchMode' = FALSE
  /\ UNCHANGED <<file, files, claim, loading, batchLoading, error, uploadCall,
                 batchCall, response>>
  /\ UNCHANGED caseVars
  /\ UNCHANGED exportVars
  /\ UNCHANGED serverVars

\* the View Full Analysis button of an entry of the multi-case results
viewCaseAnalysis ==
  /\ ResultsShown
  /\ \E i \in 1..Len(multiCaseResults) : result' = multiCaseResults[i]
  /\ multiCaseResults' = <<>>
  /\ isMultiCaseMode' = FALSE
  /\ UNCHANGED <<fileClaims, multiCaseLoading, selectedHistoryId, multiCall>>
  /\ UNCHANGED <<file, files, claim, loading, batchLoading, batchResults, error,
                 isBatchMode, uploadCall, batchCall, response>>
  /\ UNCHANGED exportVars
  /\ UNCHANGED serverVars

\* the multi-case mode: the mode buttons, the selection of files, their
\* claims and handleMultiCaseUpload
NextMultiCase ==
  \/ selectSingleMode
  \/ selectBatchMode
  \/ selectMultiCaseMode
  \/ handleNewAnalysis
  \/ handleBatchFileChange
  \/ updateFileClaim
  \/ handleMultiCaseUpload
  \/ handleMultiCaseUploadResponse
  \/ handleMultiCaseUploadError
  \/ viewCaseAnalysis

SpecMultiCase == Init /\ [][NextMultiCase]_vars

\* answers of /api/analyze-batch to the uploads made between the changes of
\* mode: a result of the new format, complete but for the category scores
ModeResponses ==
  {data \in UnifiedResponses :
     /\ data.authenticity_score \in {Num(0), Num(100)}
     /\ data.risk_level = Str("Low")
     /\ data.verdict = Str("The documents agree with the claim.")
     /\ data.category_scores = Undef}

\* the three modes: the mode buttons, New, the uploads of the batch mode and
\* of the multi-case mode, and the View Full Analysis buttons of their
\* results
NextModes ==
  \/ selectSingleMode
  \/ selectBatchMode
  \/ selectMultiCaseMode
  \/ handleNewAnalysis
  \/ handleFileChange
  \/ handleBatchFileChange
  \/ handleBatchUpload
  \/ \E data \in ModeResponses : handleBatchUploadAnswered(data)
  \/ viewFullAnalysis
  \/ updateFileClaim
  \/ handleMultiCaseUpload
  \/ handleMultiCaseUploadResponse
  \/ handleMultiCaseUploadError
  \/ viewCaseAnalysis

SpecModes == Init /\ [][NextModes]_vars

----------------------------------------------------------------------------
(* Properties of the normalized result *)

\* a batch response has been turned into the stored result
BatchDone ==
  /\ response # None
  /\ "files" \in DOMAIN response.config
  /\ Len(batchResults) = 1

\* a single-file response has been turned into the stored result
SingleDone ==
  /\ response # None
  /\ "file" \in DOMAIN response.config
  /\ result # Null

Finding == batchResults[1]

\* the response went through the old-format merge, or the new-format pass
MergePath == BatchDone /\ HasResults(response.data)

UnifiedPath == BatchDone /\ ~HasResults(response.data)

PerFile == response.data.results.a

\* v is an integer in 0..100
IsScore(v) == IsInteger(v) /\ v.x2 >= 0 /\ v.x2 <= 200

\* the risk level the fixed 70/40 mapping gives an integer score
MappedRisk(score) ==
  IF score.x2 >= 140 THEN "Low" ELSE IF score.x2 >= 80 THEN "Medium" ELSE "High"

RiskFollowsScore(f) ==
  IsScore(f.authenticity_score) => f.risk_level = Str(MappedRisk(f.authenticity_score))

\* C1: whenever the score of a normalized result is an integer in 0..100,
\* its risk level is the one the 70/40 mapping gives that score, whatever
\* risk level the payload supplied, on the single-file path and on both
\* batch paths.
C1_RiskLevelFollowsScore ==
  /\ BatchDone => RiskFollowsScore(Finding)
  /\ SingleDone => RiskFollowsScore(result)

\* C2: the score of every normalized result is an integer in 0..100,
\* whatever score the payload supplied.
C2_ScoreIsClamped == BatchDone => IsScore(Finding.authenticity_score)

NonEmptyString(v) == v.t = "string" /\ v.s # ""

\* C3: the verdict of every normalized result is a non-empty string, and a
\* payload verdict that is absent, empty or the placeholder is replaced by
\* the generated sentence naming the score, for every score in 0..100.
C3_VerdictIsGenerated ==
  /\ BatchDone => NonEmptyString(Finding.verdict)
  /\ (UnifiedPath /\ IsScore(Finding.authenticity_score)
      /\ response.data.verdict \in {Undef, Str(""), Str(DefaultVerdict)})
     => Finding.verdict = Str(GeneratedVerdict(Finding.authenticity_score))

\* C4: the reasons of every normalized result are a list with at least one
\* element, on the new-format path and on the merge path.
C4_ReasonsNonEmpty ==
  BatchDone => (IsArray(Finding.reasons) /\ Len(Finding.reasons.a) >= 1)

\* C5: the category scores of every normalized result have exactly the six
\* fixed keys, each an integer in 0..100.
C5_SixCategoryScores ==
  BatchDone =>
    /\ Finding.category_scores.t = "object"
    /\ DOMAIN Finding.category_scores.o = CategoryKeys
    /\ \A key \in CategoryKeys : IsScore(Finding.category_scores.o[key])

CountedX2(v) == IF IsNum(v) THEN v.x2 ELSE 0

RECURSIVE TotalX2(_, _)
TotalX2(f, n) == IF n = 0 THEN 0 ELSE f[n] + TotalX2(f, n - 1)

\* m is the integer nearest to total / (2 * n), the larger one at a tie
IsRoundedMean(m, total, n) ==
  /\ IsInteger(m)
  /\ total - n < n * m.x2
  /\ n * m.x2 <= total + n

PerFileCategoryX2(r, key) ==
  IF r.category_scores.t = "object" /\ key \in DOMAIN r.category_scores.o
  THEN CountedX2(r.category_scores.o[key])
  ELSE 0

\* C7: on the merge path the merged score and each merged category score is
\* the mean of the per-file values rounded to the nearest integer, ties
\* up, and the merged risk level is the 70/40 mapping of the merged score,
\* whatever risk levels the per-file results carry.
C7_MergedMeans ==
  MergePath =>
    LET n == Len(PerFile)
    IN /\ IsRoundedMean(Finding.authenticity_score,
                        TotalX2([i \in 1..n |-> CountedX2(PerFile[i].authenticity_score)], n),
                        n)
       /\ Finding.category_scores.t = "object"
       /\ DOMAIN Finding.category_scores.o = CategoryKeys
       /\ \A key \in CategoryKeys :
            IsRoundedMean(Finding.category_scores.o[key],
                          TotalX2([i \in 1..n |-> PerFileCategoryX2(PerFile[i], key)], n),
                          n)
       /\ Finding.risk_level = Str(MappedRisk(Finding.authenticity_score))

\* scores 95, 90 and 85, each marked High, merged to 90 and Low
C7_Witness ==
  /\ MergePath
  /\ Len(PerFile) = 3
  /\ PerFile[1].authenticity_score = Num(95)
  /\ PerFile[2].authenticity_score = Num(90)
  /\ PerFile[3].authenticity_score = Num(85)
  /\ \A i \in 1..3 : PerFile[i].risk_level = Str("High")
  /\ Finding.authenticity_score = Num(90)
  /\ Finding.risk_level = Str("Low")

FirstIndex(q, x) == CHOOSE i \in 1..Len(q) : q[i] = x /\ \A j \in 1..(i - 1) : q[j] # x

Smaller(a, b) == IF a < b THEN a ELSE b

\* C8: on the merge path the merged reasons are the first 7 of the per-file
\* reasons in file order, repetitions kept; the merged signals are the
\* first 7 distinct per-file signals in the order of their first occurrence.
C8_MergedLists ==
  MergePath =>
    LET reasons == allReasons(PerFile)
        signals == allSignals(PerFile)
        got == Finding.signals.a
    IN /\ Finding.reasons = Arr(SubSeq(reasons, 1, Smaller(7, Len(reasons))))
       /\ Len(Finding.reasons.a) <= 7
       /\ Finding.signals.t = "array"
       /\ Len(got) = Smaller(7, Cardinality(Elements(signals)))
       /\ \A i, j \in 1..Len(got) : i # j => got[i] # got[j]
       /\ \A i \in 1..Len(got) : got[i] \in Elements(signals)
       /\ \A i, j \in 1..Len(got) :
            i < j => FirstIndex(signals, got[i]) < FirstIndex(signals, got[j])
       /\ \A x \in Elements(signals) :
            (\E i \in 1..Len(got) : FirstIndex(signals, x) < FirstIndex(signals, got[i]))
              => x \in Elements(got)

\* more than 7 reasons with repetitions and more than 7 distinct signals
\* with duplicates: both lists are cut, the signals after the duplicates
\* are removed
C8_Witness ==
  /\ MergePath
  /\ Len(allReasons(PerFile)) > 7
  /\ Cardinality(Elements(Finding.reasons.a)) < Len(Finding.reasons.a)
  /\ Cardinality(Elements(allSignals(PerFile))) > 7
  /\ Cardinality(Elements(allSignals(PerFile))) < Len(allSignals(PerFile))
  /\ Len(Finding.signals.a) = 7

NamedEntries == {i \in 1..Len(PerFile) : Truthy(PerFile[i].filename)}

\* the k-th per-file result that carries a file name
NthNamed(k) ==
  CHOOSE i \in NamedEntries : Cardinality({j \in NamedEntries : j < i}) = k - 1

FilenamesBackfilled ==
  /\ Finding.filenames.t = "array"
  /\ Len(Finding.filenames.a) >= 1
  /\ (UnifiedPath /\ (response.data.filenames = Undef
                      \/ response.data.filenames = Arr(<<>>)))
       => Finding.filenames = Arr(response.config.files)

C10_Idempotent ==
  UnifiedPath =>
    \A names \in FileLists \cup {response.config.files} :
      batchResult(Finding, names, response.config.claim) = Finding

\* a payload the first pass completed in five fields
C10_Witness ==
  /\ UnifiedPath
  /\ response.data.reasons = Arr(<<>>)
  /\ response.data.signals = Undef
  /\ response.data.category_scores = Undef
  /\ response.data.filenames = Undef
  /\ Finding.reasons = Arr(<<DefaultReason>>)
  /\ Finding.signals = Arr(<<DefaultSignal>>)
  /\ Finding.filenames = Arr(response.config.files)
  /\ Finding # response.data

\* a batch request has been answered with data
BatchAnswered == response # None /\ "files" \in DOMAIN response.config

\* C11: a batch answer that is a structured object always gives a stored
\* result and no error, also when per-file results are null or fields are
\* missing or of the wrong type; an answer that is no structured object
\* gives an error and no result.
C11_ObjectsNeverFail ==
  BatchAnswered =>
    IF IsPayload(response.data)
    THEN Len(batchResults) = 1
    ELSE batchResults = <<>> /\ error # Null

\* C12: when the handler has returned, the payload object it was given has
\* the fields and values it was received with.
C12_PayloadUntouched == BatchAnswered => response.object = response.data

\* the text runs on the pages of the document
PageRuns(p) == {pdf.pages[p][i] : i \in 1..Len(pdf.pages[p])}

BodyRuns(p) == {run \in PageRuns(p) : run.block # "footer"}

\* C13: on every page of the document, every line of the body (title,
\* timestamp, file list, claim, score, risk level, verdict, category
\* scores, reasons, signals, continuation markers) is drawn at a height of
\* at most pageHeight - footerHeight.
C13_BodyAboveFooter ==
  pdf # None =>
    \A p \in 1..Len(pdf.pages) :
      \A run \in BodyRuns(p) : run.y <= pageHeight - footerHeight

\* the footer loop has run
Rendered == pc \in {"save", "done"}

\* the places of the footer on page p
FooterRuns(p) == {i \in 1..Len(pdf.pages[p]) : pdf.pages[p][i].block = "footer"}

\* C14: when the rendering is complete, every page of the document, the
\* first one and every one a page break added, has exactly one footer, and
\* the footers of all pages have the same text.
C14_OneFooterPerPage ==
  Rendered =>
    /\ \A p \in 1..Len(pdf.pages) : Cardinality(FooterRuns(p)) = 1
    /\ \A p, q \in 1..Len(pdf.pages) :
         \A i \in FooterRuns(p), j \in FooterRuns(q) :
           pdf.pages[p][i].text = pdf.pages[q][j].text

\* a document of three pages or more, each with its footer
C14_Witness ==
  /\ pc = "done"
  /\ Len(pdf.pages) >= 3
  /\ \A p \in 1..Len(pdf.pages) : Cardinality(FooterRuns(p)) = 1

\* the reasons and the signals that have been drawn
DrawnReasons ==
  IF pc = "reason" THEN 1..(index - 1)
  ELSE IF pc \in {"signals", "signal", "footer", "save"}
  THEN 1..Len(result.reasons.a)
  ELSE {}

DrawnSignals ==
  IF pc = "signal" THEN 1..(index - 1)
  ELSE IF pc \in {"footer", "save"} THEN 1..Len(result.signals.a)
  ELSE {}

\* the texts of the runs a block has in the document
RunTexts(block) ==
  UNION {{run.text : run \in {r \in PageRuns(p) : r.block = block}} :
           p \in 1..Len(pdf.pages)}

\* the words of a text: what stands between its whitespace
WordsIn(text) ==
  LET parts == SplitKeepingSpaces(text)
  IN {parts[i] : i \in {j \in 1..Len(parts) : parts[j] # "" /\ ~isSpace(parts[j])}}

\* C15: every word of a reason or a signal that has been drawn stands whole
\* in one run of one line, also a word that is wider than the line: no line
\* ends inside a word.
C15_WordsStayWhole ==
  /\ \A i \in DrawnReasons :
       \A word \in WordsIn(reasonText(result, i)) : word \in RunTexts("reason")
  /\ \A i \in DrawnSignals :
       \A word \in WordsIn(signalText(result, i)) : word \in RunTexts("signal")

RECURSIVE StripTrailing(_)
\* the word without the punctuation at its end
StripTrailing(word) ==
  IF Len(word) > 0 /\ CharAt(word, Len(word)) \in {".", ",", "!", "?", ";", ":"}
  THEN StripTrailing(SubSeq(word, 1, Len(word) - 1))
  ELSE word

\* the runs of the reasons and the signals in the document
EntryRuns ==
  UNION {{run \in PageRuns(p) : run.block \in {"reason", "signal"}} :
           p \in 1..Len(pdf.pages)}

\* C16: a word of a reason or a signal is drawn bold exactly when, in lower
\* case and without the punctuation at its end, it is one of the risky
\* words: "Tampered." is bold, "authentic" is not, and "terror", which only
\* contains the risky word "error", is not.
C16_BoldIffRiskyWord ==
  pdf # None =>
    \A run \in EntryRuns :
      run.bold <=> (StripTrailing(toLowerCase(run.text)) \in riskyWords)

\* the file names of a result: its list of names, or else its one name
ExportNames(r) ==
  IF r.filenames.t = "array" /\ r.filenames.a # <<>> THEN r.filenames.a
  ELSE IF r.filename.t = "string" /\ r.filename.s # "" THEN <<r.filename.s>>
  ELSE <<>>

IsAlphanumeric(c) ==
  HasChar(LowerLetters, c) \/ HasChar(UpperLetters, c) \/ HasChar(Digits, c)

\* got is name with every letter in lower case and a '-' for every
\* character that is neither a letter nor a digit
IsReportNameOf(got, name) ==
  /\ Len(got) = Len(name)
  /\ \A i \in 1..Len(name) :
       IF IsAlphanumeric(CharAt(name, i))
       THEN /\ CharAt(got, i) \in {CharAt(name, i), LowerChar(CharAt(name, i))}
            /\ ~HasChar(UpperLetters, CharAt(got, i))
       ELSE CharAt(got, i) = "-"

ReportPrefix == "veriweave-report-"

\* C17: the name of the saved file is, for one file name, the report prefix
\* and the name in lower case with '-' for what is not alphanumeric; for two
\* or more names, the prefix and batch-N-files; without a name, the generic
\* name; and after it, in every case, the time of the export.
C17_ExportName ==
  [][(pc = "save" /\ pc' = "done") =>
      \E now \in ClockTexts :
        LET suffix == "-" \o now \o ".pdf"
            stem == SubSeq(saved'.s, 1, Len(saved'.s) - Len(suffix))
            names == ExportNames(result)
        IN /\ Len(saved'.s) > Len(suffix)
           /\ saved'.s = stem \o suffix
           /\ SubSeq(stem, 1, Len(ReportPrefix)) = ReportPrefix
           /\ CASE Len(names) = 1 ->
                     IsReportNameOf(SubSeq(stem, Len(ReportPrefix) + 1, Len(stem)),
                                    names[1])
                [] Len(names) >= 2 ->
                     stem = ReportPrefix \o "batch-" \o ToString(Len(names)) \o "-files"
                [] OTHER -> stem = ReportPrefix \o "analysis"]_vars

\* the export of a batch of two, named after the number of its files
C17_Witness ==
  /\ pc = "done"
  /\ Len(ExportNames(result)) = 2
  /\ \E now \in ClockTexts :
       saved = Str("veriweave-report-batch-2-files-" \o now \o ".pdf")

\* the ASCII text that stands for a character outside ASCII
AsciiFor ==
  [c \in NonAscii |->
     CASE c \in {"{", "<"} -> "Rs."
       [] c = "}" -> "EUR"
       [] c = "[" -> "GBP"
       [] c = "]" -> "JPY"
       [] c \in {">", "@"} -> ""
       [] c \in {"&", "="} -> "-"
       [] c = "~" -> "..."
       [] OTHER -> "?"]

RECURSIVE AsciiOf(_)
\* the text with, for every character outside ASCII, its ASCII text
AsciiOf(s) ==
  IF Len(s) = 0 THEN ""
  ELSE IF Len(s) = 1 THEN (IF s \in NonAscii THEN AsciiFor[s] ELSE s)
  ELSE LET half == Len(s) \div 2
       IN AsciiOf(SubSeq(s, 1, half)) \o AsciiOf(SubSeq(s, half + 1, Len(s)))

RECURSIVE Squeeze(_)
\* the text without its whitespace
Squeeze(s) ==
  IF Len(s) = 0 THEN ""
  ELSE IF Len(s) = 1 THEN (IF s \in Whitespace THEN "" ELSE s)
  ELSE LET half == Len(s) \div 2
       IN Squeeze(SubSeq(s, 1, half)) \o Squeeze(SubSeq(s, half + 1, Len(s)))

RECURSIVE Glued(_, _, _)
\* the texts of the runs from..to of a list of runs, one after the other
Glued(runs, from, to) ==
  IF from > to THEN ""
  ELSE IF from = to THEN runs[from].text
  ELSE LET half == (from + to) \div 2
       IN Glued(runs, from, half) \o Glued(runs, half + 1, to)

RECURSIVE DrawnFrom(_, _)
\* what the document shows of a block from page p on, page after page and
\* in the order it was drawn, without whitespace
DrawnFrom(block, p) ==
  IF p > Len(pdf.pages) THEN ""
  ELSE LET runs == SelectSeq(pdf.pages[p], LAMBDA r : r.block = block)
       IN Squeeze(Glued(runs, 1, Len(runs))) \o DrawnFrom(block, p + 1)

Drawn(block) == DrawnFrom(block, 1)

RECURSIVE AsciiOfEntries(_, _, _)
\* the first n entries of a list, each after its mark, as ASCII text without
\* whitespace
AsciiOfEntries(list, n, numbered) ==
  IF n = 0 THEN ""
  ELSE AsciiOfEntries(list, n - 1, numbered)
         \o (IF numbered THEN ToString(n) \o "." ELSE Bullet)
         \o Squeeze(AsciiOf(list[n]))

\* the steps of exportToPDF in their order
Steps ==
  <<"title", "timestamp", "file", "claim", "score", "verdict", "categories",
    "reasons", "reason", "signals", "signal", "footer", "save">>

StepOf(p) == CHOOSE i \in 1..Len(Steps) : Steps[i] = p

\* the export is past the step p
Past(p) == pc \in {Steps[i] : i \in (StepOf(p) + 1)..Len(Steps)}

\* C18: the file list, the claim, the verdict, every reason and every signal
\* are drawn as ASCII text: a character of the substitution table as its
\* ASCII text, every other character outside ASCII as '?', and every ASCII
\* character as it is.  Only the bullet before a signal, which is no part of
\* the signal, is outside ASCII.
C18_DrawnTextIsAscii ==
  /\ pdf # None =>
       \A block \in {"file", "claim", "verdict", "reason", "signal"} :
         \A text \in RunTexts(block) :
           (\E i \in 1..Len(text) : CharAt(text, i) \in NonAscii)
             => block = "signal" /\ text = Bullet
  /\ Past("file") =>
       Drawn("file") = Squeeze("File"
                         \o (IF Len(ExportNames(result)) > 1 THEN "s" ELSE "")
                         \o ":" \o AsciiOf(filenameDisplay(result)))
  /\ Past("claim") =>
       Drawn("claim") = Squeeze("Claim:"
                          \o AsciiOf(IF result.claim.t = "string" /\ result.claim.s # ""
                                     THEN result.claim.s ELSE "No claim provided"))
  /\ Past("verdict") =>
       Drawn("verdict") = Squeeze("Verdict:"
                            \o (IF result.verdict.t = "string"
                                THEN AsciiOf(result.verdict.s) ELSE ""))
  /\ pc = "reason" \/ Past("reason") =>
       Drawn("reason") = AsciiOfEntries(result.reasons.a, Cardinality(DrawnReasons), TRUE)
  /\ pc = "signal" \/ Past("signal") =>
       Drawn("signal") = AsciiOfEntries(result.signals.a, Cardinality(DrawnSignals), FALSE)

\* the export of a record with signs of currencies and an accented letter:
\* the euro sign of the claim is drawn as EUR, the accented letter of the
\* verdict as '?'
C18_Witness ==
  /\ pc = "save"
  /\ result.claim = Str("Paid }1,200 = not {1,200 ~")
  /\ Drawn("claim") = "Claim:PaidEUR1,200-notRs.1,200..."
  /\ Drawn("verdict") = "Verdict:Caf?bill:GBP12orJPY12Rs.-more"

RECURSIVE BlocksFrom(_)
\* the blocks of the runs of the document from page p on, page after page
\* and in the order they were drawn
BlocksFrom(p) ==
  IF p > Len(pdf.pages) THEN <<>>
  ELSE [i \in 1..Len(pdf.pages[p]) |-> pdf.pages[p][i].block] \o BlocksFrom(p + 1)

\* the blocks of the body in the order they were written: a block that
\* has several runs one after the other counts once, the markers and the
\* footers are no blocks
WrittenBlocks ==
  LET all == SelectSeq(BlocksFrom(1), LAMBDA b : b \notin {"continued", "footer"})
      firsts == SelectSeq([i \in 1..Len(all) |-> i],
                          LAMBDA i : i = 1 \/ all[i] # all[i - 1])
  IN [k \in 1..Len(firsts) |-> all[firsts[k]]]

\* the blocks of a result in their fixed order
BlockOrder(r) ==
  <<"title", "timestamp", "file", "claim", "score", "risk", "verdict">>
    \o (IF Truthy(r.category_scores) THEN <<"categories", "category">> ELSE <<>>)
    \o <<"reasons">> \o (IF r.reasons.a # <<>> THEN <<"reason">> ELSE <<>>)
    \o <<"signals">> \o (IF r.signals.a # <<>> THEN <<"signal">> ELSE <<>>)

RECURSIVE EntryTexts(_, _, _)
\* the texts of the first n reasons (or signals) of a result, as they are
\* written, one after the other and without whitespace
EntryTexts(r, n, reasons) ==
  IF n = 0 THEN ""
  ELSE EntryTexts(r, n - 1, reasons)
         \o Squeeze(IF reasons THEN reasonText(r, n) ELSE signalText(r, n))

HasLists(r) == IsArray(r.reasons) /\ IsArray(r.signals)

\* a statement of exportToPDF has written a block
BlockWritten ==
  /\ pc \in {Steps[i] : i \in 1..StepOf("signal")}
  /\ pdf' # None
  /\ pdf' # pdf

\* C19: the export of a result with a list of reasons and a list of signals
\* comes to its end, the saved document; by then every block has been
\* written once and in the fixed order, every reason and every signal once;
\* and every written block leaves yPos greater than where the block began
\* (its yPos before, or the top margin of the page it opened).
C19_LayoutTerminates ==
  /\ (pc = "title" /\ HasLists(result)) ~> (pc = "done")
  /\ [](Past("signal") =>
          /\ WrittenBlocks = BlockOrder(result)
          /\ Drawn("reason") = EntryTexts(result, Len(result.reasons.a), TRUE)
          /\ Drawn("signal") = EntryTexts(result, Len(result.signals.a), FALSE))
  /\ [][BlockWritten =>
          yPos' > (IF Len(pdf'.pages) > Len(pdf.pages) THEN margin ELSE yPos)]_vars

\* the saved document of a record with many reasons: several pages, all
\* blocks written
C19_Witness ==
  /\ pc = "done"
  /\ HasLists(result)
  /\ Len(result.reasons.a) = MaxReasons
  /\ Len(pdf.pages) >= 2
  /\ WrittenBlocks = BlockOrder(result)

\* the calls of the model and the records a request made
CallsOf(r) == SelectSeq(modelCalls, LAMBDA call : call.request = r)

ScansOf(r) == SelectSeq(scans, LAMBDA scan : scan.request = r)

\* the body of a response is one result for the whole batch of a request
IsUnifiedResult(body, r) ==
  /\ IsPayload(body)
  /\ IsNum(body.authenticity_score)
  /\ Truthy(body.risk_level) /\ Truthy(body.verdict)
  /\ IsArray(body.reasons) /\ IsArray(body.signals)
  /\ Truthy(body.category_scores)
  /\ body.filenames = Arr(req[r].files)
  /\ body.batch_size = Num(Len(req[r].files))
  /\ body.claim = req[r].claim

\* a request with at least one file and a claim that is not empty
HasFilesAndClaim(r) ==
  /\ req[r] # None
  /\ Len(req[r].files) >= 1
  /\ req[r].claim.t = "string" /\ req[r].claim.s # ""

IsAccepted(r) ==
  HasFilesAndClaim(r) /\ trim(req[r].claim.s) # ""

----------------------------------------------------------------------------
(* Properties of the page breaks *)

\* the space checkPageBreak is called with before the block of the statement
\* the export is at (lines 463, 474, 484, 570, 581-583, 604, 615-617); -1
\* where the block is written without a call (lines 423-460)
CheckedSpace ==
  CASE pc = "score" -> 15
    [] pc = "verdict" -> 20
    [] pc = "categories" -> 50
    [] pc = "reasons" -> 20
    [] pc = "reason" ->
         Len(splitTextToSize(reasonText(result, index), maxContentWidth - 5)) * 7 + 4
    [] pc = "signals" -> 20
    [] pc = "signal" ->
         Len(splitTextToSize(signalText(result, index), maxContentWidth - 5)) * 7
    [] OTHER -> -1

\* the statement the export is at starts a new page
PageBroken ==
  /\ pdf # None /\ pdf' # None
  /\ Len(pdf'.pages) > Len(pdf.pages)

\* where the block of the statement begins: the cursor, or the top margin of
\* the page the statement opened
BlockStart == IF PageBroken THEN margin ELSE yPos

\* the space between two sections that follows the last reason (line 601)
\* and is no part of its block
SectionGap ==
  IF pc = "reason" /\ index = Len(result.reasons.a) THEN 5
  ELSE IF pc = "reasons" /\ result.reasons.a = <<>> THEN 5
  ELSE 0

\* the runs the statement draws
NewRuns ==
  LET page == pdf'.pages[pdf'.page]
      from == IF PageBroken THEN 1 ELSE Len(pdf.pages[pdf.page]) + 1
  IN {page[i] : i \in from..Len(page)}

\* C21: every statement that writes a block calls checkPageBreak before, with
\* a space at least as large as the advance of yPos the block then makes
\* (the continuation marker and the lines that wrapped while drawn
\* included); and a block written without a page break has no line below
\* pageHeight - footerHeight.
C21_CheckCoversBlock ==
  [][BlockWritten =>
       /\ CheckedSpace >= 0
       /\ yPos' - SectionGap - BlockStart <= CheckedSpace
       /\ ~PageBroken => \A run \in NewRuns : run.y <= pageHeight - footerHeight]_vars

\* the blocks of the runs of page p in the order they were drawn
BlocksOn(p) == [i \in 1..Len(pdf.pages[p]) |-> pdf.pages[p][i].block]

\* the pages a page break opened
OpenedPages == IF pdf = None THEN {} ELSE 2..Len(pdf.pages)

\* the continuation notes on page p
NotesOn(p) == {i \in 1..Len(pdf.pages[p]) : pdf.pages[p][i].block = "continued"}

\* C22: a page break before a reason or a signal writes "(continued)" as the
\* first line of the new page, above every other line of the body, and the
\* entry follows it; a page break before any other block (score, verdict,
\* category scores, headings) writes no note.
C22_ContinuedAfterBreakInList ==
  /\ [][PageBroken =>
          LET page == pdf'.pages[pdf'.page]
          IN IF pc \in {"reason", "signal"}
             THEN /\ Len(page) >= 2
                  /\ page[1].block = "continued"
                  /\ page[1].text = "(continued)"
                  /\ page[2].block = pc
                  /\ \A i \in 2..Len(page) : page[i].y > page[1].y
             ELSE \A i \in 1..Len(page) : page[i].block # "continued"]_vars
  /\ [](\A p \in OpenedPages :
          /\ NotesOn(p) \subseteq {1}
          /\ NotesOn(p) = {1} <=> Len(pdf.pages[p]) > 0
                                    /\ \/ BlocksOn(p)[1] \in {"reason", "signal"}
                                       \/ BlocksOn(p)[1] = "continued")
  /\ [](pdf # None => NotesOn(1) = {})

\* a document with a page that a reason opened and a page that a signal
\* opened, each under its note
C22_Witness ==
  /\ pc = "done"
  /\ \E p, q \in OpenedPages :
       /\ SubSeq(BlocksOn(p), 1, 2) = <<"continued", "reason">>
       /\ SubSeq(BlocksOn(q), 1, 2) = <<"continued", "signal">>

\* a statement of the body of the document (all but the footer loop and the
\* save) has run and has not thrown
BodyStep ==
  /\ pc \in {Steps[i] : i \in 1..StepOf("signal")}
  /\ pdf' # None

\* C23: the cursor only moves forward.  A statement of the body stays on the
\* current page or goes to the next one, which it has added (the page number
\* grows by exactly 1 and never shrinks), and it leaves the earlier pages as
\* they are; it adds a page only when the space its check asks for exceeds
\* what is left above the footer, and then whenever it does; the first line
\* on an added page is at the top margin and the cursor ends below it; on
\* the same page yPos never decreases; and the footer loop begins only when
\* every block of the result has been written.
C23_CursorMovesForward ==
  /\ [][BodyStep =>
          /\ pdf'.page = Len(pdf'.pages)
          /\ pdf'.page = IF PageBroken THEN pdf.page + 1 ELSE pdf.page
          /\ \A p \in 1..Len(pdf.pages) :
               p < pdf'.page => pdf'.pages[p] = pdf.pages[p]
          /\ PageBroken =>
               /\ CheckedSpace >= 0
               /\ yPos + CheckedSpace > pageHeight - footerHeight
               /\ pdf'.pages[pdf'.page][1].y = margin
               /\ yPos' > margin
          /\ ~PageBroken =>
               /\ yPos' >= yPos
               /\ CheckedSpace >= 0 /\ pdf' # pdf =>
                    yPos + CheckedSpace <= pageHeight - footerHeight]_vars
  /\ [](pc \in {"footer", "save"} => WrittenBlocks = BlockOrder(result))

\* the body of a document of three pages or more is complete, the cursor on
\* its last page
C23_Witness ==
  /\ pc = "footer"
  /\ pdf.page >= 3
  /\ pdf.page = Len(pdf.pages)
  /\ yPos > margin

----------------------------------------------------------------------------
(* Properties of the lines of the reasons and the signals *)

\* the width a run has on paper: that of its text in the face it is drawn in
DrawnWidth(run) == Len(run.text) * (IF run.bold THEN BoldGlyphWidth ELSE GlyphWidth)

\* the left and the right edge of the lines of a reason or a signal
EntryLeft == margin + 5

EntryRight == pageWidth - margin

\* the places on page p of the runs of the reasons and the signals
EntryPlaces(p) ==
  {i \in 1..Len(pdf.pages[p]) : pdf.pages[p][i].block \in {"reason", "signal"}}

\* the places of the words (the runs that are no whitespace) on the line of
\* page p at height y
WordsOnLine(p, y) ==
  {i \in EntryPlaces(p) : pdf.pages[p][i].y = y /\ ~isSpace(pdf.pages[p][i].text)}

\* the run at place i of page p goes on where the run before it ended
Abuts(p, i) ==
  LET page == pdf.pages[p]
  IN /\ (i - 1) \in EntryPlaces(p)
     /\ page[i - 1].y = page[i].y
     /\ page[i].x = page[i - 1].x + DrawnWidth(page[i - 1])

\* C24: in a reason or a signal every run stands where the width of the runs
\* before it on the line, each in the face it is drawn in, puts it, or at the
\* left edge of a line; a word is left on a line after other text only when,
\* at the width of its own face, it ends within the line; so no line with
\* more than one word goes beyond the right edge of the content area.
C24_BoldWidthDecidesBreak ==
  pdf # None =>
    \A p \in 1..Len(pdf.pages) :
      /\ \A i \in EntryPlaces(p) :
           LET run == pdf.pages[p][i]
           IN /\ run.x = EntryLeft \/ Abuts(p, i)
              /\ run.x > EntryLeft /\ ~isSpace(run.text) =>
                   run.x + DrawnWidth(run) <= EntryRight - 2
      /\ \A i \in EntryPlaces(p) :
           Cardinality(WordsOnLine(p, pdf.pages[p][i].y)) > 1 =>
             \A j \in WordsOnLine(p, pdf.pages[p][i].y) :
               pdf.pages[p][j].x + DrawnWidth(pdf.pages[p][j]) <= EntryRight

\* a bold word stands at the start of a line of its own although at the
\* width of the regular face it would have ended within the line before
C24_Witness ==
  /\ pdf # None
  /\ \E p \in 1..Len(pdf.pages) :
       \E i \in EntryPlaces(p) :
         LET page == pdf.pages[p]
         IN /\ page[i].bold
            /\ page[i].x = EntryLeft
            /\ (i - 1) \in EntryPlaces(p)
            /\ page[i - 1].y = page[i].y - lineHeight
            /\ page[i - 1].x + DrawnWidth(page[i - 1]) + Len(page[i].text) * GlyphWidth
                 <= EntryRight - 2
            /\ page[i - 1].x + DrawnWidth(page[i - 1]) + DrawnWidth(page[i])
                 > EntryRight - 2

----------------------------------------------------------------------------
(* Properties of the multi-case upload *)

\* a multi-case upload has got the answer for a file, or its failure
CaseSettled == multiCall # None /\ multiCall' # multiCall

\* the results of the upload after the step: those it goes on with, or those
\* it has stored
CaseResultsAfter == IF multiCall' = None THEN multiCaseResults' ELSE multiCall'.results

\* C25: a multi-case upload starts only with a non-empty claim for every
\* selected file; it sends one request at a time, for the files in their
\* order, each with the claim of its file; each settled request adds one
\* entry with the name and the claim of its file, a failed one an entry with
\* score 0 and risk level High, after which the next file is sent; and when
\* the last request is settled multiCaseResults is these entries, one for
\* each file, in the order of the files.
C25_OneEntryPerCase ==
  /\ [][multiCall = None /\ multiCall' # None =>
          /\ Len(files) > 0
          /\ multiCall'.files = files
          /\ \A i \in 1..Len(files) :
               /\ files[i] \in DOMAIN fileClaims
               /\ fileClaims[files[i]] # ""]_vars
  /\ [](multiCall # None =>
          /\ Len(multiCall.posted) = Len(multiCall.results) + 1
          /\ Len(multiCall.posted) <= Len(multiCall.files)
          /\ \A i \in 1..Len(multiCall.posted) :
               multiCall.posted[i] =
                 [file |-> multiCall.files[i],
                  claim |-> multiCall.claims[multiCall.files[i]]])
  /\ [][CaseSettled =>
          LET i == Len(multiCall.results) + 1
              n == Len(multiCall.files)
              name == multiCall.files[i]
              after == CaseResultsAfter
          IN /\ Len(after) = i
             /\ SubSeq(after, 1, i - 1) = multiCall.results
             /\ after[i].filename = Str(name)
             /\ after[i].claim = Str(multiCall.claims[name])
             /\ handleMultiCaseUploadError =>
                  /\ after[i].authenticity_score = Num(0)
                  /\ after[i].risk_level = Str("High")
             /\ i < n => multiCall' # None /\ Len(multiCall'.posted) = i + 1
             /\ i = n => /\ multiCall' = None
                         /\ ~multiCaseLoading'
                         /\ Len(multiCaseResults') = n]_vars

\* the results of an upload of two files with different claims: the first
\* file failed, the second was analysed and has its own name, not the one
\* the server answered with
C25_Witness ==
  /\ multiCall = None
  /\ Len(multiCaseResults) = 2
  /\ multiCaseResults[1].filename = Str("invoice.pdf")
  /\ multiCaseResults[1].authenticity_score = Num(0)
  /\ multiCaseResults[1].risk_level = Str("High")
  /\ multiCaseResults[1].claim = Str("The invoice is genuine.")
  /\ multiCaseResults[2].filename = Str("receipt.png")
  /\ multiCaseResults[2].authenticity_score = Num(100)
  /\ multiCaseResults[2].claim = Str("The receipt is altered.")

----------------------------------------------------------------------------
(* Properties of the old-format merge under the new-format pass *)

\* the fields of a Finding
FindingFields ==
  {"authenticity_score", "risk_level", "verdict", "reasons", "signals",
   "category_scores", "filenames"}

\* C26: the result of the old-format merge is left as it is by the
\* new-format pass: normalizing it as a new-format payload, with the same
\* uploaded file names, changes none of score, risk level, verdict,
\* reasons, signals, category scores and file names.
C26_MergedResultIsNormal ==
  MergePath =>
    LET again == UnifiedResult(Finding, response.config.files)
    IN \A field \in FindingFields : again[field] = Finding[field]

----------------------------------------------------------------------------
(* Properties of the history list *)

\* the records of the history list that carry the mark
SelectedItems ==
  {i \in 1..Len(History) : selectedHistoryId = itemId(History[i], i - 1)}

\* C27: whenever a record of the history list is marked as selected and a
\* result is displayed, the result is that record, whatever the order of
\* the clicks and of the answer to a single-file upload that is under way.
C27_SelectedIsDisplayed ==
  selectedHistoryId # Null /\ result # Null =>
    \E i \in SelectedItems : result = History[i]

----------------------------------------------------------------------------
(* Properties of the upload directory *)

\* the request has been answered after its analysis was started: with the
\* result, or with the error of the model call, the parsing or the save
AnsweredAnalysis(r) == at[r] = "answered" /\ res[r].status \in {200, 500}

\* C28: when a request whose files were analysed is answered, with the
\* result or with an error of the model call, of the parsing of its answer
\* or of the save of the record, none of its files is left in the upload
\* directory.
C28_UploadsDeleted ==
  \A r \in Requests : AnsweredAnalysis(r) => uploads[r] = <<>>

----------------------------------------------------------------------------
(* Properties of the label of the result *)

\* a result with a score from 0 to 100 is displayed
ScoreDisplayed == result # Null /\ IsScore(result.authenticity_score)

\* C29: the label displayed for a score from 0 to 100 agrees with the risk
\* level the fixed mapping gives the same score: AUTHENTIC exactly for Low
\* (70 and more), SUSPICIOUS exactly for Medium (40 to 69), TAMPERED exactly
\* for High (less than 40).
C29_LabelAgreesWithRisk ==
  ScoreDisplayed =>
    LET label == getRiskStatus(result.authenticity_score)
        risk == riskLevel(result.authenticity_score)
    IN /\ label = "AUTHENTIC" <=> risk = Str("Low")
       /\ label = "SUSPICIOUS" <=> risk = Str("Medium")
       /\ label = "TAMPERED" <=> risk = Str("High")

----------------------------------------------------------------------------
(* Properties of the modes *)

\* a click on one of the three mode buttons
ModeButton == selectSingleMode \/ selectBatchMode \/ selectMultiCaseMode

\* C30: the batch mode and the multi-case mode are never both on, whatever
\* the clicks on the mode buttons, on New and on the View Full Analysis
\* buttons; and a click on a mode button leaves no selected file, no
\* selected files, no claims of files, no result, no batch results and no
\* multi-case results.
C30_OneModeAndCleared ==
  /\ [](~(isBatchMode /\ isMultiCaseMode))
  /\ [][ModeButton =>
          /\ file' = Null
          /\ files' = <<>>
          /\ fileClaims' = NoClaims
          /\ result' = Null
          /\ batchResults' = <<>>
          /\ multiCaseResults' = <<>>]_vars

\* the multi-case mode was entered by its button and left by View Full
\* Analysis: no mode is on, the entry is displayed, and the files and their
\* claims are still selected
C30_Witness ==
  /\ ~isBatchMode /\ ~isMultiCaseMode
  /\ result # Null
  /\ multiCaseResults = <<>>
  /\ files # <<>>
  /\ fileClaims # NoClaims

====
